---- MODULE Spec2Model ----
(***************************************************************************)
(* Procedural animation engine of the AnimeWaifu avatar.                   *)
(*                                                                         *)
(*   - Avatar component (src/unnamed/part_001): the per-frame callback     *)
(*     useFrame() doing lip sync, blinking, emotion blending and the pose  *)
(*     state machine.                                                      *)
(*   - ElevenLabsTTSService (src/src/services/elevenLabsService.ts): the   *)
(*     audio-level extractor driven by requestAnimationFrame.              *)
(*                                                                         *)
(* Numbers.  JavaScript numbers are modelled in fixed point:               *)
(*   - seconds are integers in units of 1/TimeRes s,                       *)
(*   - every other quantity (weights, levels, blend factors, Math.random   *)
(*     results, sines) is an integer in units of 1/One.                    *)
(* TimeRes and One are chosen so that every constant of the code           *)
(* (0.15 s, 1.5 s, 2.5 s, 3/s, 0.7, 0.3, 1/150 ...) is represented exactly *)
(* for the frame intervals used (1/30 s, 1/60 s, 1/144 s, ...).  Products  *)
(* by 0.85, 0.4/0.6 and 0.3/0.7 are rounded to the nearest unit, as IEEE   *)
(* arithmetic rounds to the nearest double.                                *)
(***************************************************************************)
EXTENDS Integers, Naturals, Sequences, FiniteSets, TLC

\* ------------------------------------------------------------------------
\* Fixed-point helpers
\* ------------------------------------------------------------------------

\* Units per second of the `delta` / timer values.
TimeRes == 720

\* Units per 1.0 of every dimensionless number.
One == TimeRes * 3000

Min(a, b) == IF a <= b THEN a ELSE b
Max(a, b) == IF a >= b THEN a ELSE b

\* Math.max(0, Math.min(1, x))
Clamp01(x) == Max(0, Min(One, x))

\* x * (num/den), rounded to the nearest unit (x >= 0).
MulRound(x, num, den) == (x * num + den \div 2) \div den

\* A number of seconds given as num/den, in timer units.
Secs(num, den) == (TimeRes * num) \div den

\* ------------------------------------------------------------------------
\* Bounds of the model
\* ------------------------------------------------------------------------

\* Math.random() returns k/RandomSteps for k in 0..RandomSteps-1.
RandomSteps == 5

RandomDraws == {(k * One) \div RandomSteps : k \in 0 .. RandomSteps - 1}

\* ------------------------------------------------------------------------
\* Avatar: types and tables
\* ------------------------------------------------------------------------

EmotionTags ==
    {"happy", "angry", "sad", "surprised", "embarrassed", "loving", "worried",
     "annoyed", "excited", "neutral", "shy", "proud", "confused"}

\* VRM expression channels the frame callback writes.
Channels ==
    {"aa", "oh", "blink", "happy", "angry", "sad", "surprised", "relaxed", "neutral"}

\* Values a reply's tag can take that are not EmotionTags: a word that is no
\* key of any object, and a key every object inherits from Object.prototype.
UnknownTags == {"hungry", "constructor"}

\* emotionToVRMExpression[e]: "null" stands for the null entries and for the
\* undefined of a missing key, "inherited" for the Object.prototype member
\* an inherited key yields (truthy, and the name of no expression).
emotionToVRMExpression(e) ==
    CASE e = "happy" -> "happy"
      [] e = "angry" -> "angry"
      [] e = "sad" -> "sad"
      [] e = "surprised" -> "surprised"
      [] e = "embarrassed" -> "null"
      [] e = "loving" -> "relaxed"
      [] e = "worried" -> "sad"
      [] e = "annoyed" -> "angry"
      [] e = "excited" -> "happy"
      [] e = "neutral" -> "neutral"
      [] e = "shy" -> "null"
      [] e = "proud" -> "happy"
      [] e = "confused" -> "surprised"
      [] e = "constructor" -> "inherited"
      [] OTHER -> "null"

\* const poses = [poseRelaxed, poseArmsCrossed, poseWaving, poseShy, poseTouchingHead]
NumPoses == 5

VARIABLES
    vrm,        \* TRUE once the VRM model is loaded (setVrm(loadedVrm))
    lipSync,    \* lipSyncRef.current: [value, smoothedLevel]
    blink,      \* blinkRef.current: [timer, isBlinking]
    emotion,    \* emotionRef.current: [current, blendValue]
    poseAnim,   \* poseAnimRef.current: [currentPoseIndex, targetPoseIndex, blendFactor, poseTimer]
    expr,       \* expressionManager: channel -> weight last passed to setValue
    frame,      \* observation of the last frame callback (history, not program state)
    breath,     \* breathRef.current.phase, in units of 1/(10 * TimeRes) rad
    currentPose,\* poseAnimRef.current.currentPose: bone name -> <<x, y, z>>
    bones,      \* humanoid: the rotation last passed to each bone name, and the
                \* names the last callback (or the loader) applied
    silentTicks,\* history: consecutive callbacks with isSpeaking false and audioLevel 0
    labelTicks, \* history: callbacks since the requested emotion label last changed
    steadyTicks, \* history: consecutive callbacks with the last callback's isSpeaking
    twin        \* the blink state and weight of a second run of the callbacks

avatarVars == <<vrm, lipSync, blink, emotion, poseAnim, expr, frame, breath, currentPose, bones>>
histVars == <<silentTicks, labelTicks, steadyTicks, twin>>

VARIABLES
    tts,        \* the ElevenLabsTTSService singleton's fields
    calls,      \* speak() calls: where each is suspended (pc), the element it
                \* played, and (history) whether stop() was called after the
                \* call was issued with no speak() since (stopped)
    elements,   \* the HTMLAudioElements created by speak()
    raf,        \* requestAnimationFrame: [pending : set of ids, issued : count]
    notified,   \* the AudioState last passed to the state callback
    app         \* the App's state isSpeaking and audioLevel, the Avatar's props

serviceVars == <<tts, calls, elements, raf, notified, app>>

VARIABLES
    chat,       \* the App's isLoading and where each processMessage call is
    synth,      \* speechSynthesis: the utterances of speechService.speak
    gemini,     \* the GeminiService singleton's fields and its calls
    mic,        \* the SpeechService's recognition and isListening, the App's
                \* isMicActive, isApiReady, interimTranscript and
                \* pendingTranscriptRef, the dependencies its pending-transcript
                \* effect last ran with, and (history) the final transcripts
                \* delivered and those passed to processMessage
    convo       \* the App's messages and currentEmotion, and (history) what the
                \* last processMessage call did (last) and the number, the
                \* text and the isLoading and isApiReady of the last call
                \* that a caller other than the effect made (call)

hostVars == <<chat, synth, gemini, mic, convo>>

vars == <<avatarVars, histVars, serviceVars, hostVars>>


\* ------------------------------------------------------------------------
\* Inputs of one frame callback
\* ------------------------------------------------------------------------

\* One call of the useFrame callback receives: delta, the props isSpeaking,
\* audioLevel and currentEmotion, the sines of the clock time it evaluates
\* (Math.sin(time * k) for k = 15, 12, 18, 25; the clock is an input, so each
\* sine is any sample of [-1, 1]) and the results of its Math.random() calls.
\* The sines of the speaking head movement (Math.sin(time * 2.5), * 1.8 and
\* * 2.2) are sinHeadX, sinHeadY and sinHeadZ; the specifications whose
\* properties do not read the bones sample them at 0.
FrameInputs(dts, speaking, levels, emotions, sines15, sines, rLip, rBlink, rPose) ==
    [dt : dts, isSpeaking : speaking, audioLevel : levels, currentEmotion : emotions,
     sin15 : sines15, sin12 : sines, sin18 : sines, sin25 : sines,
     sinHeadX : {0}, sinHeadY : {0}, sinHeadZ : {0},
     randomLip : rLip, randomBlinkStart : rBlink, randomBlinkEnd : rBlink,
     randomPose : rPose]

\* ------------------------------------------------------------------------
\* Lip sync (useFrame, "LIP SYNC (Audio-Based)")
\* ------------------------------------------------------------------------

MouthDecaySlow(v) == MulRound(v, 95, 100)

\* lipSync.value * 0.85
MouthDecay(v) == MulRound(v, 85, 100)

\* The three branches with the smoothing weights 0.9 and 0.1.
LipSyncStepSlow(ls, in) ==
    IF in.isSpeaking /\ in.audioLevel > 0
    THEN LET smoothed == MulRound(ls.smoothedLevel * 9 + in.audioLevel * 1, 1, 10)
             variation == in.sin15 \div 10
         IN  [value |-> Clamp01(smoothed + variation), smoothedLevel |-> smoothed]
    ELSE IF in.isSpeaking
    THEN LET wave1 == (in.sin12 * 3) \div 10
             wave2 == (in.sin18 * 2) \div 10
             wave3 == (in.sin25 * 15) \div 100
             randomVariation == in.randomLip \div 10
         IN  [value |-> Clamp01((One * 3) \div 10 + wave1 + wave2 + wave3 + randomVariation),
              smoothedLevel |-> ls.smoothedLevel]
    ELSE [value |-> MouthDecay(ls.value), smoothedLevel |-> 0]

\* The three branches with a mouth that closes at once when not speaking.
LipSyncStepSnap(ls, in) ==
    IF in.isSpeaking /\ in.audioLevel > 0
    THEN LET smoothed == MulRound(ls.smoothedLevel * 4 + in.audioLevel * 6, 1, 10)
             variation == in.sin15 \div 10
         IN  [value |-> Clamp01(smoothed + variation), smoothedLevel |-> smoothed]
    ELSE IF in.isSpeaking
    THEN LET wave1 == (in.sin12 * 3) \div 10
             wave2 == (in.sin18 * 2) \div 10
             wave3 == (in.sin25 * 15) \div 100
             randomVariation == in.randomLip \div 10
         IN  [value |-> Clamp01((One * 3) \div 10 + wave1 + wave2 + wave3 + randomVariation),
              smoothedLevel |-> ls.smoothedLevel]
    ELSE [value |-> 0, smoothedLevel |-> 0]

\* The three branches on isSpeaking / audioLevel.
LipSyncStep(ls, in) ==
    IF in.isSpeaking /\ in.audioLevel > 0
    THEN LET smoothed == MulRound(ls.smoothedLevel * 4 + in.audioLevel * 6, 1, 10)
             variation == in.sin15 \div 10
         IN  [value |-> Clamp01(smoothed + variation), smoothedLevel |-> smoothed]
    ELSE IF in.isSpeaking
    THEN LET wave1 == (in.sin12 * 3) \div 10
             wave2 == (in.sin18 * 2) \div 10
             wave3 == (in.sin25 * 15) \div 100
             randomVariation == in.randomLip \div 10
         IN  [value |-> Clamp01((One * 3) \div 10 + wave1 + wave2 + wave3 + randomVariation),
              smoothedLevel |-> ls.smoothedLevel]
    ELSE [value |-> MouthDecay(ls.value), smoothedLevel |-> 0]

\* const mouthOpenValue = Math.max(0, Math.min(1, lipSync.value))
MouthOpenValue(ls) == Clamp01(ls.value)

AaWeightUnscaled(open) == open

\* setValue(Aa, mouthOpenValue * 0.9)
AaWeight(open) == (open * 9) \div 10

\* setValue(Oh, mouthOpenValue * 0.4)
OhWeight(open) == (open * 4) \div 10

\* ------------------------------------------------------------------------
\* Blinking (useFrame, "BLINKING")
\* ------------------------------------------------------------------------

\* A blink timer drawn from [1,5) seconds.
BlinkIntervalFromOne(r) == Secs(1, 1) + (r * 4) \div (One \div TimeRes)

\* 2 + Math.random() * 4, in timer units
BlinkInterval(r) == Secs(2, 1) + (r * 4) \div (One \div TimeRes)

\* The 0.15 of "blink.timer / 0.15", in timer units
BlinkDuration == Secs(15, 100)

\* const blinkProgress = 1 - (blink.timer / 0.15)
BlinkProgress(timer) == One - timer * (One \div BlinkDuration)

\* Math.sin(p * Math.PI) for a fixed-point p of any sign: the sign and the
\* zeros are exact (sin(p*pi) has the sign (-1)^floor(p)); the magnitude is
\* Bhaskara's rational approximation 16f(1-f) / (5 - 4f(1-f)) of sin(f*pi) on
\* [0,1], evaluated on f in thousandths with the result in 1/500.
SinPi(p) ==
    LET k == p \div One
        f == (p - k * One) \div (One \div 1000)
        g == f * (1000 - f)
        q == (16 * g * 500) \div (5000000 - 4 * g)
        mag == q * (One \div 500)
    IN  IF k % 2 = 0 THEN mag ELSE 0 - mag

\* BlinkStep without the setValue(Blink, 0) that ends a blink.
BlinkStepNoReset(b, in) ==
    LET t1 == b.timer - in.dt
        start == t1 <= 0 /\ ~b.isBlinking
        t2 == IF start THEN BlinkInterval(in.randomBlinkStart) ELSE t1
        blinking == start \/ b.isBlinking
        blinkProgress == BlinkProgress(t2)
    IN  IF ~blinking
        THEN [timer |-> t2, isBlinking |-> FALSE, wrote |-> FALSE, weight |-> 0,
              progress |-> blinkProgress]
        ELSE IF blinkProgress >= One
        THEN [timer |-> BlinkInterval(in.randomBlinkEnd), isBlinking |-> FALSE,
              wrote |-> FALSE, weight |-> 0, progress |-> blinkProgress]
        ELSE [timer |-> t2, isBlinking |-> TRUE, wrote |-> TRUE,
              weight |-> SinPi(blinkProgress), progress |-> blinkProgress]

\* The blinking block that starts no blink while the avatar speaks.
BlinkStepWhenSilent(b, in) ==
    LET t1 == b.timer - in.dt
        start == t1 <= 0 /\ ~b.isBlinking /\ ~in.isSpeaking
        t2 == IF start THEN BlinkInterval(in.randomBlinkStart) ELSE t1
        blinking == start \/ b.isBlinking
        blinkProgress == BlinkProgress(t2)
    IN  IF ~blinking
        THEN [timer |-> t2, isBlinking |-> FALSE, wrote |-> FALSE, weight |-> 0,
              progress |-> blinkProgress]
        ELSE IF blinkProgress >= One
        THEN [timer |-> BlinkInterval(in.randomBlinkEnd), isBlinking |-> FALSE,
              wrote |-> TRUE, weight |-> 0, progress |-> blinkProgress]
        ELSE [timer |-> t2, isBlinking |-> TRUE, wrote |-> TRUE,
              weight |-> SinPi(blinkProgress), progress |-> blinkProgress]

\* The two ifs of the blinking block.  Result: the new blink state and the
\* weight passed to setValue(Blink, .), if any (wrote).
BlinkStep(b, in) ==
    LET t1 == b.timer - in.dt
        start == t1 <= 0 /\ ~b.isBlinking
        t2 == IF start THEN BlinkInterval(in.randomBlinkStart) ELSE t1
        blinking == start \/ b.isBlinking
        blinkProgress == BlinkProgress(t2)
    IN  IF ~blinking
        THEN [timer |-> t2, isBlinking |-> FALSE, wrote |-> FALSE, weight |-> 0,
              progress |-> blinkProgress]
        ELSE IF blinkProgress >= One
        THEN [timer |-> BlinkInterval(in.randomBlinkEnd), isBlinking |-> FALSE,
              wrote |-> TRUE, weight |-> 0, progress |-> blinkProgress]
        ELSE [timer |-> t2, isBlinking |-> TRUE, wrote |-> TRUE,
              weight |-> SinPi(blinkProgress), progress |-> blinkProgress]


\* ------------------------------------------------------------------------
\* Emotion expressions (useFrame, "EMOTION EXPRESSIONS")
\* ------------------------------------------------------------------------

EmotionDeltaSlow(dt) == dt * 2 * (One \div TimeRes)

\* const emotionSpeed = 3 : delta * emotionSpeed, delta in timer units
EmotionDelta(dt) == dt * 3 * (One \div TimeRes)

\* EmotionStep without the reset of blendValue on a label change.
EmotionStepNoReset(em, in) ==
    [current |-> in.currentEmotion,
     blendValue |-> Min(One, em.blendValue + EmotionDelta(in.dt))]

\* "Check if emotion changed" and "Smoothly blend to target emotion"
EmotionStep(em, in) ==
    LET base == IF em.current # in.currentEmotion THEN 0 ELSE em.blendValue
    IN  [current |-> in.currentEmotion,
         blendValue |-> Min(One, base + EmotionDelta(in.dt))]

\* const expressionsToReset = [Happy, Angry, Sad, Surprised, Relaxed]
expressionsToReset == {"happy", "angry", "sad", "surprised", "relaxed"}

\* The reset loop without the test currentValue > 0 and without Math.max.
ResetExpressionNoFloor(currentValue, dt) == currentValue - EmotionDelta(dt)

\* The reset loop: a positive weight loses delta * emotionSpeed, not below 0.
ResetExpression(currentValue, dt) ==
    IF currentValue > 0 THEN Max(0, currentValue - EmotionDelta(dt)) ELSE currentValue

\* "Apply current emotion" with a plain else for the custom blend.
EmotionTargetElse(currentEmotion) ==
    LET targetExpression == emotionToVRMExpression(currentEmotion)
    IN  IF targetExpression # "null"
        THEN [channel |-> targetExpression, num |-> 7]
        ELSE [channel |-> "happy", num |-> 3]

\* "Apply current emotion": the channel written and its weight, if any.
EmotionTarget(currentEmotion) ==
    LET targetExpression == emotionToVRMExpression(currentEmotion)
    IN  IF targetExpression # "null"
        THEN [channel |-> targetExpression, num |-> 7]
        ELSE IF currentEmotion = "embarrassed" \/ currentEmotion = "shy"
        THEN [channel |-> "happy", num |-> 3]
        ELSE [channel |-> "null", num |-> 0]

\* The weight without the factor 0.7 or 0.3.
EmotionWeightFull(blendValue, num) == blendValue

\* emotion.blendValue * 0.7 (num = 7) or * 0.3 (num = 3)
EmotionWeight(blendValue, num) == (blendValue * num) \div 10

\* ------------------------------------------------------------------------
\* Pose state machine (useFrame, "FULL BODY POSE ANIMATIONS")
\* ------------------------------------------------------------------------

\* const poseChangeInterval = isSpeaking ? 2.5 : 5
PoseChangeInterval(isSpeaking) == IF isSpeaking THEN Secs(5, 2) ELSE Secs(5, 1)

PoseDecisionDueAtInterval(poseTimer, isSpeaking) ==
    poseTimer >= PoseChangeInterval(isSpeaking)

\* if (poseAnim.poseTimer > poseChangeInterval)
PoseDecisionDue(poseTimer, isSpeaking) == poseTimer > PoseChangeInterval(isSpeaking)

\* The speaking list with the relaxed pose in place of the weight-shifted one.
speakingPosesRelaxed == <<1, 2, 0>>

\* const speakingPoses = [1, 2, 4]
speakingPoses == <<1, 2, 4>>

\* const idlePoses = [0, 0, 4, 4, 1]
idlePoses == <<0, 0, 4, 4, 1>>

\* list[Math.floor(Math.random() * list.length)]  (sequences are 1-based)
RandomPick(list, r) == list[(r * Len(list)) \div One + 1]

\* "Pick a new target pose" that tests 'embarrassed' only for the shy pose.
PickPoseNoShy(isSpeaking, currentEmotion, r) ==
    IF isSpeaking THEN RandomPick(speakingPoses, r)
    ELSE IF currentEmotion = "embarrassed" THEN 3
    ELSE IF currentEmotion = "angry" \/ currentEmotion = "annoyed" \/ currentEmotion = "proud" THEN 1
    ELSE IF currentEmotion = "excited" \/ currentEmotion = "happy" THEN 2
    ELSE RandomPick(idlePoses, r)

\* "Pick a new target pose"
PickPose(isSpeaking, currentEmotion, r) ==
    IF isSpeaking THEN RandomPick(speakingPoses, r)
    ELSE IF currentEmotion = "shy" \/ currentEmotion = "embarrassed" THEN 3
    ELSE IF currentEmotion = "angry" \/ currentEmotion = "annoyed" \/ currentEmotion = "proud" THEN 1
    ELSE IF currentEmotion = "excited" \/ currentEmotion = "happy" THEN 2
    ELSE RandomPick(idlePoses, r)

NoRepeatUnchecked(newPoseIndex, currentPoseIndex) == newPoseIndex

\* "Don't pick same pose twice in a row"
NoRepeat(newPoseIndex, currentPoseIndex) ==
    IF newPoseIndex = currentPoseIndex THEN (newPoseIndex + 1) % NumPoses ELSE newPoseIndex

\* const blendSpeed = 1.5 : delta / blendSpeed, delta in timer units
BlendDelta(dt) == (dt * (One \div TimeRes) * 2) \div 3

\* The blend step without the test blendFactor < 1 and without Math.min.
BlendAdvanceUncapped(blendFactor, dt) == blendFactor + BlendDelta(dt)

\* if (blendFactor < 1) blendFactor = Math.min(1, blendFactor + delta / blendSpeed)
BlendAdvance(blendFactor, dt) ==
    IF blendFactor < One THEN Min(One, blendFactor + BlendDelta(dt)) ELSE blendFactor

\* Timer, decision and blend of one frame.
PoseStep(pa, in) ==
    LET poseTimer == pa.poseTimer + in.dt
        decide == PoseDecisionDue(poseTimer, in.isSpeaking)
        newPoseIndex ==
            NoRepeat(PickPose(in.isSpeaking, in.currentEmotion, in.randomPose),
                     pa.targetPoseIndex)
    IN  IF decide
        THEN [currentPoseIndex |-> pa.targetPoseIndex,
              targetPoseIndex |-> newPoseIndex,
              blendFactor |-> BlendAdvance(0, in.dt),
              poseTimer |-> 0]
        ELSE [currentPoseIndex |-> pa.currentPoseIndex,
              targetPoseIndex |-> pa.targetPoseIndex,
              blendFactor |-> BlendAdvance(pa.blendFactor, in.dt),
              poseTimer |-> poseTimer]


\* ------------------------------------------------------------------------
\* Pose catalog, pose blend and bones (useFrame, "Smoothly blend to target
\* pose" and "Apply current pose to bones")
\* ------------------------------------------------------------------------
\* Rotations are integers in units of 1/RotRes rad.

RotRes == 10000

\* The keys of PoseData.
BoneNames ==
    {"spine", "chest", "head", "leftShoulder", "rightShoulder", "leftUpperArm",
     "rightUpperArm", "leftLowerArm", "rightLowerArm", "leftHand", "rightHand",
     "hips", "leftUpperLeg", "rightUpperLeg"}

\* const poseRelaxed: PoseData (lines 72-87)
poseRelaxed ==
    [spine |-> <<300, 0, 0>>,
     chest |-> <<200, 0, 0>>,
     head |-> <<500, 0, 200>>,
     leftShoulder |-> <<0, 0, 0>>,
     rightShoulder |-> <<0, 0, 0>>,
     leftUpperArm |-> <<3000, 2000, 11000>>,
     rightUpperArm |-> <<3000, 0 - 2000, 0 - 11000>>,
     leftLowerArm |-> <<0, 0 - 8000, 0>>,
     rightLowerArm |-> <<0, 8000, 0>>,
     leftHand |-> <<0, 2000, 0>>,
     rightHand |-> <<0, 0 - 2000, 0>>,
     hips |-> <<0, 0, 0>>,
     leftUpperLeg |-> <<0, 0, 200>>,
     rightUpperLeg |-> <<0, 0, 0 - 200>>]

\* const poseArmsCrossed: PoseData (lines 90-105)
poseArmsCrossed ==
    [spine |-> <<200, 0, 0>>,
     chest |-> <<0, 0, 0>>,
     head |-> <<300, 500, 0>>,
     leftShoulder |-> <<1000, 0, 0>>,
     rightShoulder |-> <<1000, 0, 0>>,
     leftUpperArm |-> <<5000, 4000, 12000>>,
     rightUpperArm |-> <<5000, 0 - 4000, 0 - 12000>>,
     leftLowerArm |-> <<0, 0 - 14000, 2000>>,
     rightLowerArm |-> <<0, 14000, 0 - 2000>>,
     leftHand |-> <<2000, 2000, 0>>,
     rightHand |-> <<2000, 0 - 2000, 0>>,
     hips |-> <<0, 0, 0>>,
     leftUpperLeg |-> <<0, 0, 200>>,
     rightUpperLeg |-> <<0, 0, 0 - 200>>]

\* const poseWaving: PoseData (lines 108-123)
poseWaving ==
    [spine |-> <<200, 200, 0>>,
     chest |-> <<0, 300, 0>>,
     head |-> <<500, 800, 300>>,
     leftShoulder |-> <<0, 0, 0>>,
     rightShoulder |-> <<0, 0, 0>>,
     leftUpperArm |-> <<2000, 1000, 12000>>,
     rightUpperArm |-> <<0 - 3000, 0 - 3000, 0 - 4000>>,
     leftLowerArm |-> <<0, 0 - 5000, 0>>,
     rightLowerArm |-> <<2000, 10000, 0>>,
     leftHand |-> <<0, 1000, 0>>,
     rightHand |-> <<2000, 0 - 1000, 1000>>,
     hips |-> <<0, 0, 0>>,
     leftUpperLeg |-> <<200, 0, 200>>,
     rightUpperLeg |-> <<0 - 200, 0, 0 - 200>>]

\* const poseShy: PoseData (lines 126-141)
poseShy ==
    [spine |-> <<500, 0, 0>>,
     chest |-> <<300, 0, 0>>,
     head |-> <<1200, 0 - 500, 500>>,
     leftShoulder |-> <<1000, 0, 0>>,
     rightShoulder |-> <<1000, 0, 0>>,
     leftUpperArm |-> <<6000, 3000, 10000>>,
     rightUpperArm |-> <<6000, 0 - 3000, 0 - 10000>>,
     leftLowerArm |-> <<2000, 0 - 12000, 0>>,
     rightLowerArm |-> <<2000, 12000, 0>>,
     leftHand |-> <<0 - 1000, 2000, 0>>,
     rightHand |-> <<0 - 1000, 0 - 2000, 0>>,
     hips |-> <<0, 0, 0>>,
     leftUpperLeg |-> <<0, 0, 400>>,
     rightUpperLeg |-> <<0, 0, 0 - 400>>]

\* const poseTouchingHead: PoseData (lines 144-159)
poseTouchingHead ==
    [spine |-> <<200, 200, 0>>,
     chest |-> <<0 - 200, 300, 0>>,
     head |-> <<500, 1000, 300>>,
     leftShoulder |-> <<0, 0, 0>>,
     rightShoulder |-> <<0, 0, 0>>,
     leftUpperArm |-> <<2000, 1000, 12000>>,
     rightUpperArm |-> <<0 - 8000, 0 - 4000, 0 - 2000>>,
     leftLowerArm |-> <<0, 0 - 4000, 0>>,
     rightLowerArm |-> <<3000, 9000, 0>>,
     leftHand |-> <<0, 1000, 0>>,
     rightHand |-> <<2000, 0 - 1000, 1000>>,
     hips |-> <<0, 0, 200>>,
     leftUpperLeg |-> <<0, 0, 300>>,
     rightUpperLeg |-> <<300, 0, 0 - 200>>]

\* poses[i]
poses(i) ==
    CASE i = 0 -> poseRelaxed
      [] i = 1 -> poseArmsCrossed
      [] i = 2 -> poseWaving
      [] i = 3 -> poseShy
      [] i = 4 -> poseTouchingHead

\* easeInOutCubic(t) = t < 0.5 ? 4t^3 : 1 - (-2t + 2)^3 / 2, in thousandths,
\* t taken in units of 1/1200.
EaseInOutCubic(t) ==
    LET u == t \div (One \div 1200)
        v == 2400 - 2 * u
    IN  IF 2 * t < One
        THEN (4 * u * u * u) \div 1728000
        ELSE 1000 - (v * v * v) \div 3456000

\* lerpValue(from, to, t), t in thousandths
LerpValue(from, to, t) == from + ((to - from) * t) \div 1000

\* lerpRotation(from, to, t)
LerpRotation(from, to, t) ==
    <<LerpValue(from[1], to[1], t), LerpValue(from[2], to[2], t), LerpValue(from[3], to[3], t)>>

\* poseAnim.currentPose after the blend step of a callback: interpolated
\* again while blendFactor (after a decision: 0) was below 1, kept otherwise.
\* `pa` is poseAnim before the callback, `next` after it.
CurrentPoseStep(pose, pa, next, in) ==
    LET blendFactor == IF PoseDecisionDue(pa.poseTimer + in.dt, in.isSpeaking)
                       THEN 0 ELSE pa.blendFactor
        easedBlend == EaseInOutCubic(next.blendFactor)
        fromPose == poses(next.currentPoseIndex)
        toPose == poses(next.targetPoseIndex)
    IN  IF blendFactor < One
        THEN [b \in BoneNames |-> LerpRotation(fromPose[b], toPose[b], easedBlend)]
        ELSE pose

\* breath.phase += delta * 0.8
BreathStep(phase, dt) == phase + dt * 8

\* Math.sin(breath.phase): the phase over pi is phase * 300 / 3.142 units.
BreathSin(phase) == SinPi(((phase * 300) \div 3142) * 1000)

\* The overlays with the breathing of the spine on all three axes.
BoneOverlayAllAxes(b, in, phase) ==
    LET breathAmount == (BreathSin(phase) * (RotRes \div 100)) \div One
        breathExpand15 == ((BreathSin(phase) + One) * ((RotRes * 6) \div 1000)) \div One
        speakHeadX == IF in.isSpeaking THEN (in.sinHeadX * ((RotRes * 3) \div 100)) \div One ELSE 0
        speakHeadY == IF in.isSpeaking THEN (in.sinHeadY * ((RotRes * 5) \div 100)) \div One ELSE 0
        speakHeadZ == IF in.isSpeaking THEN (in.sinHeadZ * ((RotRes * 25) \div 1000)) \div One ELSE 0
    IN  CASE b = "spine" -> <<breathAmount, breathAmount, breathAmount>>
          [] b = "chest" -> <<breathExpand15, 0, 0>>
          [] b = "head" -> <<speakHeadX, speakHeadY, speakHeadZ>>
          [] OTHER -> <<0, 0, 0>>

\* The overlay argument of each applyBone call: { x: breathAmount } for the
\* spine, { x: breathExpand * 1.5 } for the chest, the speaking head movement
\* for the head, none for the others; a missing axis counts 0.
BoneOverlay(b, in, phase) ==
    LET breathAmount == (BreathSin(phase) * (RotRes \div 100)) \div One
        breathExpand15 == ((BreathSin(phase) + One) * ((RotRes * 6) \div 1000)) \div One
        speakHeadX == IF in.isSpeaking THEN (in.sinHeadX * ((RotRes * 3) \div 100)) \div One ELSE 0
        speakHeadY == IF in.isSpeaking THEN (in.sinHeadY * ((RotRes * 5) \div 100)) \div One ELSE 0
        speakHeadZ == IF in.isSpeaking THEN (in.sinHeadZ * ((RotRes * 25) \div 1000)) \div One ELSE 0
    IN  CASE b = "spine" -> <<breathAmount, 0, 0>>
          [] b = "chest" -> <<breathExpand15, 0, 0>>
          [] b = "head" -> <<speakHeadX, speakHeadY, speakHeadZ>>
          [] OTHER -> <<0, 0, 0>>

\* The bone names of the applyBone calls of the callback, and of the
\* applyPoseToBone calls of the loader.
AppliedBones ==
    {"spine", "chest", "hips", "head", "leftShoulder", "rightShoulder",
     "leftUpperArm", "rightUpperArm", "leftLowerArm", "rightLowerArm",
     "leftHand", "rightHand", "leftUpperLeg", "rightUpperLeg"}

\* The names whose applyBone call passes an overlay argument.
OverlaidBones == {"spine", "chest", "head"}

\* applyBone(boneName, rotation, overlay) for every name of AppliedBones:
\* bone.rotation.set(rotation.x + (overlay?.x || 0), ...); without an overlay
\* argument the rotation is set as it is.
BonesAfter(bn, pose, in, phase) ==
    [rotation |->
        [b \in BoneNames |->
            IF b \notin AppliedBones THEN bn.rotation[b]
            ELSE IF b \in OverlaidBones
            THEN LET overlay == BoneOverlay(b, in, phase)
                 IN  <<pose[b][1] + overlay[1], pose[b][2] + overlay[2],
                       pose[b][3] + overlay[3]>>
            ELSE pose[b]],
     applied |-> AppliedBones]

\* ------------------------------------------------------------------------
\* The frame callback as one step
\* ------------------------------------------------------------------------

\* The weights of all channels after one callback: Aa and Oh, then Blink (if
\* written), then the reset loop, then the current emotion's channel.
ExpressionsAfter(ex, ls, bl, em, in) ==
    LET open == MouthOpenValue(ls)
        target == EmotionTarget(in.currentEmotion)
    IN  [c \in Channels |->
            IF c = "aa" THEN AaWeight(open)
            ELSE IF c = "oh" THEN OhWeight(open)
            ELSE IF c = "blink" THEN (IF bl.wrote THEN bl.weight ELSE ex[c])
            ELSE IF c = target.channel THEN EmotionWeight(em.blendValue, target.num)
            ELSE IF c \in expressionsToReset THEN ResetExpression(ex[c], in.dt)
            ELSE ex[c]]

\* What the last callback did, kept for stating properties: its number, its
\* delta and isSpeaking, whether it took a pose decision, the blink progress
\* it computed (blinkActive: the "if (blink.isBlinking)" block ran), the dt
\* accumulated since the blink in progress started (kept in the frame that
\* ends it), the dt accumulated since the last blink ended (kept in the
\* frame that starts the next one).
FrameAfter(fr, bl, pa, in) ==
    [n |-> fr.n + 1,
     dt |-> in.dt,
     isSpeaking |-> in.isSpeaking,
     decided |-> PoseDecisionDue(pa.poseTimer + in.dt, in.isSpeaking),
     blinkActive |-> bl.wrote,
     blinkProgress |-> IF bl.wrote THEN bl.progress ELSE 0,
     blinkAge |-> IF blink.isBlinking THEN fr.blinkAge + in.dt ELSE 0,
     idleAge |-> IF blink.isBlinking THEN 0 ELSE fr.idleAge + in.dt]

AvatarInit ==
    /\ vrm = FALSE
    /\ lipSync = [value |-> 0, smoothedLevel |-> 0]
    /\ blink = [timer |-> 0, isBlinking |-> FALSE]
    /\ emotion = [current |-> "neutral", blendValue |-> 0]
    /\ poseAnim = [currentPoseIndex |-> 0, targetPoseIndex |-> 0,
                   blendFactor |-> One, poseTimer |-> 0]
    /\ expr = [c \in Channels |-> 0]
    /\ frame = [n |-> 0, dt |-> 0, isSpeaking |-> FALSE, decided |-> FALSE,
                blinkActive |-> FALSE, blinkProgress |-> 0, blinkAge |-> 0,
                idleAge |-> 0]
    /\ breath = 0
    /\ currentPose = poseRelaxed
    /\ bones = [rotation |-> [b \in BoneNames |-> <<0, 0, 0>>], applied |-> {}]
    /\ silentTicks = 0
    /\ labelTicks = 0
    /\ steadyTicks = 0
    /\ twin = [timer |-> 0, isBlinking |-> FALSE, weight |-> 0, isSpeaking |-> FALSE]

\* loader.load(...) succeeds: the initial pose is applied to the bones and
\* setVrm(loadedVrm)
LoadVrm ==
    /\ ~vrm
    /\ vrm' = TRUE
    /\ bones' = [rotation |-> [b \in BoneNames |->
                                 IF b \in AppliedBones THEN currentPose[b]
                                 ELSE bones.rotation[b]],
                 applied |-> AppliedBones]
    /\ UNCHANGED <<lipSync, blink, emotion, poseAnim, expr, frame, breath, currentPose>>
    /\ UNCHANGED <<histVars, serviceVars, hostVars>>

\* useFrame((state, delta) => { ... }) with the inputs `in`
Tick(in) ==
    /\ vrm
    /\ LET bl == BlinkStep(blink, in)
       IN  /\ lipSync' = LipSyncStep(lipSync, in)
           /\ blink' = [timer |-> bl.timer, isBlinking |-> bl.isBlinking]
           /\ emotion' = EmotionStep(emotion, in)
           /\ poseAnim' = PoseStep(poseAnim, in)
           /\ expr' = ExpressionsAfter(expr, lipSync', bl, emotion', in)
           /\ frame' = FrameAfter(frame, bl, poseAnim, in)
           /\ breath' = BreathStep(breath, in.dt)
           /\ currentPose' = CurrentPoseStep(currentPose, poseAnim, poseAnim', in)
           /\ bones' = BonesAfter(bones, currentPose', in, breath')
    /\ UNCHANGED <<vrm, serviceVars, hostVars>>

\* The blinking block of the same callback in a second run, which received
\* the inputs `other`.
TwinTick(other) ==
    LET bl == BlinkStep([timer |-> twin.timer, isBlinking |-> twin.isBlinking], other)
    IN  twin' = [timer |-> bl.timer, isBlinking |-> bl.isBlinking,
                 weight |-> IF bl.wrote THEN bl.weight ELSE twin.weight,
                 isSpeaking |-> other.isSpeaking]

\* The history counters, kept by the specifications whose properties count
\* callbacks; the other specifications leave them at 0.
CountSilent(in) ==
    silentTicks' = IF ~in.isSpeaking /\ in.audioLevel = 0 THEN silentTicks + 1 ELSE 0

CountLabel(in) ==
    labelTicks' = IF emotion.current # in.currentEmotion THEN 1 ELSE labelTicks + 1

CountSteady(in) ==
    steadyTicks' = IF frame.n > 0 /\ in.isSpeaking = frame.isSpeaking
                   THEN steadyTicks + 1 ELSE 1



\* ------------------------------------------------------------------------
\* ElevenLabsTTSService: audio level extractor
\* ------------------------------------------------------------------------

\* Bounds: speak() calls made, requestAnimationFrame requests issued.
MaxSpeaks == 2
MaxFrameRequests == 3

CallIds == 1 .. MaxSpeaks

\* this.analyser.fftSize = 256; frequencyBinCount is half of it.
FrequencyBinCount == 128

Bins == 0 .. FrequencyBinCount - 1

\* The byte frequency data of one analysis tick: bins 0-1, the bins below 20
\* and the bins from 20 on each hold one byte; or a ramp 10 * i (capped).
\* AudioFrames: silence, the two ends of the normalised range (30 and 180),
\* mid level, full scale, energy outside the voice band only, and the ramp.
BandFrame(low, voice, high) ==
    [i \in Bins |-> IF i < 2 THEN low ELSE IF i < 20 THEN voice ELSE high]

RampFrame == [i \in Bins |-> Min(255, 10 * i)]

AudioFrames ==
    {BandFrame(0, voice, 0) : voice \in {0, 30, 105, 180, 255}}
    \cup {BandFrame(255, 0, 255), RampFrame}

\* The loop with the test i <= voiceRangeEnd.
RECURSIVE SumBinsInclusive(_, _, _)
SumBinsInclusive(dataArray, i, voiceRangeEnd) ==
    IF i <= voiceRangeEnd
    THEN dataArray[i] + SumBinsInclusive(dataArray, i + 1, voiceRangeEnd)
    ELSE 0

\* for (let i = voiceRangeStart; i < voiceRangeEnd; i++) sum += dataArray[i]
RECURSIVE SumBins(_, _, _)
SumBins(dataArray, i, voiceRangeEnd) ==
    IF i < voiceRangeEnd THEN dataArray[i] + SumBins(dataArray, i + 1, voiceRangeEnd) ELSE 0

NormalizeUnclamped(sum, count) == ((sum - 30 * count) * (One \div 150)) \div count

\* Math.min(1, Math.max(0, (average - 30) / 150)) with average = sum / count
Normalize(sum, count) == Clamp01(((sum - 30 * count) * (One \div 150)) \div count)

\* analyze() without the smoothing: the level is the normalized average.
AnalyzedLevelUnsmoothed(level, dataArray) ==
    Normalize(SumBins(dataArray, 2, Min(20, FrequencyBinCount)), Min(20, FrequencyBinCount) - 2)

\* The level computed by analyze() from one frame of frequency data.
AnalyzedLevel(level, dataArray) ==
    LET voiceRangeStart == 2
        voiceRangeEnd == Min(20, FrequencyBinCount)
        sum == SumBins(dataArray, voiceRangeStart, voiceRangeEnd)
        normalized == Normalize(sum, voiceRangeEnd - voiceRangeStart)
    IN  MulRound(level * 3 + normalized * 7, 1, 10)

\* notifyState(): the callback, when set, receives isPlaying and the level.
NotifyState(t, old) ==
    IF t.stateCallback
    THEN [isPlaying |-> t.isPlaying, audioLevel |-> t.currentAudioLevel]
    ELSE old

\* The App's state callback: setIsSpeaking(state.isPlaying) and
\* setAudioLevel(state.audioLevel).
StateCallback(t, a) ==
    IF t.stateCallback
    THEN [isSpeaking |-> t.isPlaying, audioLevel |-> t.currentAudioLevel]
    ELSE a

ServiceInit ==
    /\ tts = [isInitialized |-> FALSE, stateCallback |-> FALSE, isPlaying |-> FALSE,
              animationFrameId |-> 0, currentAudioLevel |-> 0, audio |-> 0,
              audioContext |-> FALSE, analyser |-> FALSE, dataArray |-> FALSE,
              source |-> 0]
    /\ calls = [k \in CallIds |-> [pc |-> "idle", element |-> 0, stopped |-> FALSE]]
    /\ elements = [k \in CallIds |-> [state |-> "none", playEvent |-> FALSE,
                                      handlers |-> FALSE]]
    /\ raf = [pending |-> {}, issued |-> 0]
    /\ notified = [isPlaying |-> FALSE, audioLevel |-> 0]
    /\ app = [isSpeaking |-> FALSE, audioLevel |-> 0]

\* The App before any message, speechSynthesis with nothing queued, and the
\* GeminiService as constructed.
HostInit ==
    /\ chat = [isLoading |-> FALSE, pc |-> [k \in CallIds |-> "idle"]]
    /\ synth = [synthesis |-> "unset", utterance |-> [k \in CallIds |-> "none"]]
    /\ gemini = [model |-> FALSE, chatSession |-> FALSE, isInitialized |-> FALSE,
                 request |-> "none", sent |-> 0,
                 result |-> [kind |-> "none", emotion |-> <<>>, text |-> <<>>]]
                 \* result: what the last sendMessage or generateResponse returned
    /\ mic = [recognition |-> "idle", startQueued |-> FALSE, isListening |-> FALSE,
              stopped |-> FALSE, isMicActive |-> FALSE, isApiReady |-> FALSE,
              interim |-> 0, pending |-> 0, seen |-> <<0, FALSE, FALSE, FALSE>>,
              finals |-> 0, eligible |-> {}, processed |-> <<>>]
    /\ convo = [messages |-> <<[sender |-> "waifu", emotion |-> "annoyed", text |-> "greeting"]>>,
                currentEmotion |-> "neutral",
                last |-> "none",
                call |-> [n |-> 0, text |-> <<>>, loading |-> FALSE, ready |-> FALSE]]

Init == AvatarInit /\ ServiceInit /\ HostInit

\* cancelAnimationFrame(id)
CancelFrame(r, id) == [r EXCEPT !.pending = @ \ {id}]

\* The body of analyze(): the service and the frame requests after it ran on
\* the frequency data `data`.
AnalyzeResult(t, r, data) ==
    IF ~t.analyser \/ ~t.dataArray \/ ~t.isPlaying
    THEN [tts |-> [t EXCEPT !.currentAudioLevel = 0], raf |-> r]
    ELSE [tts |-> [t EXCEPT !.currentAudioLevel = AnalyzedLevel(t.currentAudioLevel, data),
                            !.animationFrameId = r.issued + 1],
          raf |-> [pending |-> r.pending \cup {r.issued + 1}, issued |-> r.issued + 1]]

\* startAudioAnalysis(): cancel the pending request, then analyze() at once.
StartAnalysisResult(t, r, data) ==
    AnalyzeResult(t, IF t.animationFrameId # 0 THEN CancelFrame(r, t.animationFrameId) ELSE r,
                  data)

\* stopAudioAnalysis() that forgets the pending request.
StopAnalysisNoCancel(t, r) ==
    [tts |-> [t EXCEPT !.animationFrameId = 0, !.currentAudioLevel = 0], raf |-> r]

\* stopAudioAnalysis()
StopAnalysisResult(t, r) ==
    [tts |-> [t EXCEPT !.animationFrameId = 0, !.currentAudioLevel = 0],
     raf |-> IF t.animationFrameId # 0 THEN CancelFrame(r, t.animationFrameId) ELSE r]

\* audio.pause() on element k
Paused(els, k) ==
    IF k # 0 /\ els[k].state \in {"starting", "playing"}
    THEN [els EXCEPT ![k].state = "paused"]
    ELSE els

\* stop(): pause and drop the element, stop the analysis, drop the source.
StopResult(t, r) ==
    LET t1 == [t EXCEPT !.audio = 0, !.isPlaying = FALSE]
        res == StopAnalysisResult(t1, r)
    IN  [tts |-> [res.tts EXCEPT !.source = 0], raf |-> res.raf]

\* The calls after speak() number k was issued and sent its fetch; the calls
\* after the app called stop().
Issued(cs, k) ==
    [j \in CallIds |-> [cs[j] EXCEPT !.pc = IF j = k THEN "fetch" ELSE @,
                                     !.stopped = FALSE]]

StoppedCalls(cs) ==
    [j \in CallIds |-> [cs[j] EXCEPT !.stopped = cs[j].pc # "idle"]]

\* initialize(config) and setStateCallback(callback), as the app calls them.
Initialize ==
    /\ UNCHANGED <<avatarVars, histVars, hostVars>>
    /\ ~tts.isInitialized
    /\ tts' = [tts EXCEPT !.isInitialized = TRUE, !.stateCallback = TRUE]
    /\ UNCHANGED <<calls, elements, raf, notified, app>>

\* speak(text) up to its first await: not initialized returns; otherwise
\* stop() and the fetch is sent.
\* `a` is the App's state at the call.
SpeakCall(k, a) ==
    /\ calls[k].pc = "idle"
    /\ IF ~tts.isInitialized
       THEN /\ calls' = [calls EXCEPT ![k].pc = "done"]
            /\ app' = a
            /\ UNCHANGED <<tts, elements, raf, notified>>
       ELSE LET res == StopResult(tts, raf)
            IN  /\ tts' = res.tts
                /\ raf' = res.raf
                /\ elements' = Paused(elements, tts.audio)
                /\ notified' = NotifyState(res.tts, notified)
                /\ app' = StateCallback(res.tts, a)
                /\ calls' = Issued(calls, k)

\* speak(text) called by any caller; calls are numbered in order.
Speak(k) ==
    /\ UNCHANGED <<avatarVars, histVars, hostVars>>
    /\ \A j \in CallIds : j < k => calls[j].pc # "idle"
    /\ SpeakCall(k, app)

\* The catch block of speak(): isPlaying = false, notifyState(), rethrow.
Catch(k, t) ==
    /\ tts' = [t EXCEPT !.isPlaying = FALSE]
    /\ notified' = NotifyState(tts', notified)
    /\ app' = StateCallback(tts', app)
    /\ calls' = [calls EXCEPT ![k].pc = "failed"]

\* setupAudioContext after its resume(): analyser, source (once), data array.
SetupResult(t, k) ==
    [t EXCEPT !.analyser = TRUE,
              !.source = IF t.source = 0 THEN k ELSE t.source,
              !.dataArray = TRUE]

\* The fetch and the blob resolve: a failed request throws; otherwise the
\* element is created and setupAudioContext runs up to its await (resume() of
\* a suspended context) or to its end.
FetchDone(k, ok, suspended) ==
    /\ UNCHANGED <<avatarVars, histVars, hostVars>>
    /\ calls[k].pc = "fetch"
    /\ IF ~ok
       THEN Catch(k, tts) /\ UNCHANGED <<elements, raf>>
       ELSE /\ elements' = [elements EXCEPT ![k].state = "created"]
            /\ LET t1 == [tts EXCEPT !.audio = k, !.audioContext = TRUE]
               IN  IF suspended
                   THEN tts' = t1 /\ calls' = [calls EXCEPT ![k].pc = "resume"]
                   ELSE tts' = SetupResult(t1, k) /\ calls' = [calls EXCEPT ![k].pc = "handlers"]
            /\ UNCHANGED <<raf, notified, app>>

\* audioContext.resume() settles: the rest of setupAudioContext, or a throw.
ResumeDone(k, ok) ==
    /\ UNCHANGED <<avatarVars, histVars, hostVars>>
    /\ calls[k].pc = "resume"
    /\ IF ok
       THEN /\ tts' = SetupResult(tts, k)
            /\ calls' = [calls EXCEPT ![k].pc = "handlers"]
            /\ UNCHANGED <<notified, app>>
       ELSE Catch(k, tts)
    /\ UNCHANGED <<elements, raf>>

\* After "await this.setupAudioContext": the handlers are set on this.audio
\* and this.audio.play() is called (this.audio null throws).  play() of an
\* element that is not playing queues its play event, unless the browser does
\* not allow it (the promise then rejects).
SetHandlersAndPlay(k, allowed) ==
    /\ UNCHANGED <<avatarVars, histVars, hostVars>>
    /\ calls[k].pc = "handlers"
    /\ IF tts.audio = 0
       THEN Catch(k, tts) /\ UNCHANGED <<elements, raf>>
       ELSE LET e == tts.audio
                begins == allowed /\ elements[e].state \in {"created", "paused"}
            IN  /\ elements' = [elements EXCEPT
                        ![e] = [state |-> IF begins THEN "starting" ELSE @.state,
                                playEvent |-> begins \/ @.playEvent,
                                handlers |-> TRUE]]
                /\ calls' = [calls EXCEPT ![k].pc = "play", ![k].element = e]
                /\ UNCHANGED <<tts, raf, notified, app>>

\* The promise of audio.play() settles: playback has started, or it rejects
\* (not allowed, paused by stop(), or a playback error).  The play event was
\* queued by play() itself, so it is dispatched before the promise resolves.
PlayDone(k) ==
    /\ UNCHANGED <<avatarVars, histVars, hostVars>>
    /\ calls[k].pc = "play"
    /\ LET e == calls[k].element
       IN  /\ ~(elements[e].state \in {"starting", "playing"} /\ elements[e].playEvent)
           /\ IF elements[e].state \in {"starting", "playing"}
              THEN /\ elements' = [elements EXCEPT ![e].state = "playing"]
                   /\ calls' = [calls EXCEPT ![k].pc = "done"]
                   /\ UNCHANGED <<tts, raf, notified, app>>
              ELSE Catch(k, tts) /\ UNCHANGED <<elements, raf>>

\* audio.onplay
OnPlay(e, data) ==
    /\ UNCHANGED <<avatarVars, histVars, hostVars>>
    /\ elements[e].playEvent /\ elements[e].handlers
    /\ raf.issued < MaxFrameRequests
    /\ elements' = [elements EXCEPT ![e].playEvent = FALSE]
    /\ LET res == StartAnalysisResult([tts EXCEPT !.isPlaying = TRUE], raf, data)
       IN  /\ tts' = res.tts
           /\ raf' = res.raf
           /\ notified' = NotifyState(res.tts, notified)
           /\ app' = StateCallback(res.tts, app)
    /\ UNCHANGED calls

\* The requestAnimationFrame callback: analyze()
AnimationFrame(id, data) ==
    /\ UNCHANGED <<avatarVars, histVars, hostVars>>
    /\ id \in raf.pending
    /\ raf.issued < MaxFrameRequests
    /\ LET res == AnalyzeResult(tts, CancelFrame(raf, id), data)
       IN  /\ tts' = res.tts
           /\ raf' = res.raf
           /\ notified' = NotifyState(res.tts, notified)
           /\ app' = StateCallback(res.tts, app)
    /\ UNCHANGED <<calls, elements>>

\* audio.onended and audio.onerror: isPlaying = false, stopAudioAnalysis().
\* The events of one element are delivered in the order they were queued, so
\* a queued play event precedes the ended or error event.
OnEndedOrError(e, error) ==
    /\ UNCHANGED <<avatarVars, histVars, hostVars>>
    /\ elements[e].handlers /\ ~elements[e].playEvent
    /\ elements[e].state = "playing" \/ (error /\ elements[e].state = "starting")
    /\ elements' = [elements EXCEPT ![e].state = IF error THEN "error" ELSE "ended"]
    /\ LET res == StopAnalysisResult([tts EXCEPT !.isPlaying = FALSE], raf)
       IN  /\ tts' = res.tts
           /\ raf' = res.raf
           /\ notified' = NotifyState(res.tts, notified)
           /\ app' = StateCallback(res.tts, app)
    /\ UNCHANGED calls

\* stop(), called by the app
Stop ==
    /\ UNCHANGED <<avatarVars, histVars, hostVars>>
    /\ tts.isInitialized
    /\ LET res == StopResult(tts, raf)
       IN  /\ tts' = res.tts
           /\ raf' = res.raf
           /\ elements' = Paused(elements, tts.audio)
           /\ notified' = NotifyState(res.tts, notified)
           /\ app' = StateCallback(res.tts, app)
    /\ calls' = StoppedCalls(calls)

\* ------------------------------------------------------------------------
\* App and SpeechService: who speaks a reply, and the isSpeaking it shows
\* ------------------------------------------------------------------------

\* useElevenLabs && elevenLabsTTS.isReady(): the mount effect sets
\* useElevenLabs exactly when it initializes the service.
useElevenLabs == tts.isInitialized

\* An onEnd callback that only resets the audio level.
OnEndLevelOnly == [isSpeaking |-> app.isSpeaking, audioLevel |-> 0]

\* The onEnd callback the App passes to speechService.speak:
\* setIsSpeaking(false); setAudioLevel(0).
OnEnd == [isSpeaking |-> FALSE, audioLevel |-> 0]

\* speechSynthesis.cancel(): the utterances queued or being spoken are
\* removed; speaking ceases at once and their end or error event follows.
SynthesisCancel(sy) ==
    [sy EXCEPT !.utterance =
        [u \in CallIds |-> IF @[u] \in {"pending", "speaking"} THEN "cancelled" ELSE @[u]]]

\* speechService.speak(text, onEnd): without speechSynthesis onEnd() is called
\* at once; otherwise cancel() and speak(utterance).
SpeechSpeak(sy, a, k, supported) ==
    IF ~supported
    THEN [synth |-> [sy EXCEPT !.synthesis = "null"], app |-> OnEnd]
    ELSE [synth |-> [SynthesisCancel(sy) EXCEPT !.synthesis = "present",
                                                !.utterance[k] = "pending"],
          app |-> a]

\* speechSynthesis is there or not for the whole session.
Supported(supported) ==
    synth.synthesis \in {"unset", IF supported THEN "present" ELSE "null"}

\* A continuation of speakResponse is ready to run: the promise of the
\* speak() call it awaits has settled.  It runs before any other task.
SettlePending ==
    \E k \in CallIds : chat.pc[k] = "speak" /\ calls[k].pc \in {"done", "failed"}

\* processMessage(userMessage) up to its await of sendMessageToWaifu.
ProcessMessage(k) ==
    /\ ~SettlePending
    /\ chat.pc[k] = "idle"
    /\ \A j \in CallIds : j < k => chat.pc[j] # "idle"
    /\ ~chat.isLoading
    /\ chat' = [isLoading |-> TRUE, pc |-> [chat.pc EXCEPT ![k] = "reply"]]
    /\ UNCHANGED <<avatarVars, histVars, serviceVars, synth, gemini>>

\* The reply (or the error text) is there: speakResponse(text) sets
\* isSpeaking and speaks with ElevenLabs, up to its await, or with the browser,
\* after which processMessage ends with setIsLoading(false).
SpeakResponse(k, supported) ==
    /\ ~SettlePending
    /\ chat.pc[k] = "reply"
    /\ LET a == [app EXCEPT !.isSpeaking = TRUE]
       IN  IF useElevenLabs
           THEN /\ SpeakCall(k, a)
                /\ chat' = [chat EXCEPT !.pc[k] = "speak"]
                /\ UNCHANGED synth
           ELSE /\ Supported(supported)
                /\ LET res == SpeechSpeak(synth, a, k, supported)
                   IN  synth' = res.synth /\ app' = res.app
                /\ chat' = [isLoading |-> FALSE, pc |-> [chat.pc EXCEPT ![k] = "done"]]
                /\ UNCHANGED <<tts, calls, elements, raf, notified>>
    /\ UNCHANGED <<avatarVars, histVars, gemini>>

\* speakResponse after "await elevenLabsTTS.speak(text)": a rejection falls
\* back to speechService.speak; processMessage ends with setIsLoading(false).
SpeakSettled(k, supported) ==
    /\ chat.pc[k] = "speak"
    /\ calls[k].pc \in {"done", "failed"}
    /\ IF calls[k].pc = "failed"
       THEN /\ Supported(supported)
            /\ LET res == SpeechSpeak(synth, app, k, supported)
               IN  synth' = res.synth /\ app' = res.app
       ELSE supported /\ UNCHANGED <<synth, app>>
    /\ chat' = [isLoading |-> FALSE, pc |-> [chat.pc EXCEPT ![k] = "done"]]
    /\ UNCHANGED <<avatarVars, histVars, tts, calls, elements, raf, notified, gemini, mic, convo>>

\* speechSynthesis starts to speak the utterance at the head of its queue.
UtteranceBegins(u) ==
    /\ ~SettlePending
    /\ synth.utterance[u] = "pending"
    /\ \A v \in CallIds : synth.utterance[v] # "speaking"
    /\ synth' = [synth EXCEPT !.utterance[u] = "speaking"]
    /\ UNCHANGED <<avatarVars, histVars, serviceVars, chat, gemini, mic, convo>>

\* utterance.onend / utterance.onerror: the utterance was spoken to its end,
\* failed, or was cancelled; onEnd() runs.
UtteranceEnds(u) ==
    /\ ~SettlePending
    /\ synth.utterance[u] \in {"pending", "speaking", "cancelled"}
    /\ synth' = [synth EXCEPT !.utterance[u] = "ended"]
    /\ app' = OnEnd
    /\ UNCHANGED <<avatarVars, histVars, tts, calls, elements, raf, notified, chat, gemini, mic, convo>>

\* stopSpeaking(), the App's stop button.
StopSpeaking ==
    /\ ~SettlePending
    /\ IF useElevenLabs
       THEN LET res == StopResult(tts, raf)
            IN  /\ tts' = res.tts
                /\ raf' = res.raf
                /\ elements' = Paused(elements, tts.audio)
                /\ notified' = NotifyState(res.tts, notified)
                /\ calls' = StoppedCalls(calls)
                /\ UNCHANGED synth
       ELSE /\ synth' = IF synth.synthesis = "present" THEN SynthesisCancel(synth) ELSE synth
            /\ UNCHANGED <<tts, raf, elements, notified, calls>>
    /\ app' = OnEnd
    /\ UNCHANGED <<avatarVars, histVars, chat, gemini, mic, convo>>

\* toggleMicrophone(): startListening() stops any ongoing speech synthesis.
StartListening ==
    /\ ~SettlePending
    /\ synth.synthesis = "present"
    /\ synth' = SynthesisCancel(synth)
    /\ UNCHANGED <<avatarVars, histVars, serviceVars, chat, gemini, mic, convo>>

\* ------------------------------------------------------------------------
\* GeminiService: the chat session and the emotion tag of a reply
\* ------------------------------------------------------------------------

\* Bounds: the length of a reply text, the requests sent to the model.
MaxResponseLen == 5
MaxRequests == 1

\* A reply is a sequence of characters: the brackets, a space, lower-case
\* and upper-case word characters.
Chars == {"[", "]", " ", "s", "a", "d", "S"}

RECURSIVE SeqsUpTo(_, _)
SeqsUpTo(set, n) ==
    IF n = 0 THEN {<<>>}
    ELSE LET shorter == SeqsUpTo(set, n - 1)
         IN  shorter \cup {Append(t, c) : t \in shorter, c \in set}

Responses == SeqsUpTo(Chars, MaxResponseLen)

\* \w
IsWordChar(c) == c \notin {"[", "]", " "}

\* \s
IsSpace(c) == c = " "

\* String.prototype.toLowerCase, per character
LowerChar(c) == IF c = "S" THEN "s" ELSE c

ToLowerCase(str) == [i \in 1 .. Len(str) |-> LowerChar(str[i])]

\* The length of the longest run of characters of str from position i on
\* that satisfy \w.
RECURSIVE WordRun(_, _)
WordRun(str, i) ==
    IF i <= Len(str) /\ IsWordChar(str[i]) THEN 1 + WordRun(str, i + 1) ELSE 0

RECURSIVE SpaceRun(_, _)
SpaceRun(str, i) ==
    IF i <= Len(str) /\ IsSpace(str[i]) THEN 1 + SpaceRun(str, i + 1) ELSE 0

\* String.prototype.trim
RECURSIVE TrimEnd(_)
TrimEnd(str) ==
    IF Len(str) > 0 /\ IsSpace(str[Len(str)]) THEN TrimEnd(SubSeq(str, 1, Len(str) - 1)) ELSE str

Trim(str) == TrimEnd(SubSeq(str, 1 + SpaceRun(str, 1), Len(str)))

\* response.match(/^\[(\w+)\]/): the length of the tag, 0 without a match.
EmotionMatch(response) ==
    LET n == IF Len(response) >= 1 /\ response[1] = "[" THEN WordRun(response, 2) ELSE 0
    IN  IF n >= 1 /\ Len(response) >= n + 2 /\ response[n + 2] = "]" THEN n ELSE 0

\* The EmotionTag type, spelled out.
EmotionTagNames ==
    {<<"h", "a", "p", "p", "y">>, <<"a", "n", "g", "r", "y">>, <<"s", "a", "d">>,
     <<"s", "u", "r", "p", "r", "i", "s", "e", "d">>,
     <<"e", "m", "b", "a", "r", "r", "a", "s", "s", "e", "d">>,
     <<"l", "o", "v", "i", "n", "g">>, <<"w", "o", "r", "r", "i", "e", "d">>,
     <<"a", "n", "n", "o", "y", "e", "d">>, <<"e", "x", "c", "i", "t", "e", "d">>,
     <<"n", "e", "u", "t", "r", "a", "l">>, <<"s", "h", "y">>,
     <<"p", "r", "o", "u", "d">>, <<"c", "o", "n", "f", "u", "s", "e", "d">>}

Neutral == <<"n", "e", "u", "t", "r", "a", "l">>

\* parseEmotionFromResponse(response)
parseEmotionFromResponse(response) ==
    LET n == EmotionMatch(response)
    IN  IF n > 0
        THEN [kind |-> "parsed",
              emotion |-> ToLowerCase(SubSeq(response, 2, n + 1)),
              text |-> Trim(SubSeq(response, n + 3, Len(response)))]
        ELSE [kind |-> "parsed", emotion |-> Neutral, text |-> Trim(response)]

\* What a call returned when it returned no parsed reply: nothing yet
\* ("none"), or the error it threw.
Thrown(kind) == [kind |-> kind, emotion |-> <<>>, text |-> <<>>]

\* initialize() that marks the service initialized before the chat session
\* is started.
GeminiInitializeEarly(g, outcome) ==
    CASE outcome = "modelThrows" -> g
      [] outcome = "chatThrows" -> [g EXCEPT !.model = TRUE, !.isInitialized = TRUE]
      [] OTHER -> [g EXCEPT !.model = TRUE, !.chatSession = TRUE, !.isInitialized = TRUE]

\* initialize(apiKey): the model, then the chat session, then isInitialized;
\* a throw of getGenerativeModel or of startChat leaves the rest undone.
GeminiInitializeResult(g, outcome) ==
    CASE outcome = "modelThrows" -> g
      [] outcome = "chatThrows" -> [g EXCEPT !.model = TRUE]
      [] OTHER -> [g EXCEPT !.model = TRUE, !.chatSession = TRUE, !.isInitialized = TRUE]

GeminiInitialize(outcome) ==
    /\ gemini' = GeminiInitializeResult(gemini, outcome)
    /\ UNCHANGED <<avatarVars, histVars, serviceVars, chat, synth, mic, convo>>

\* isReady()
GeminiIsReady == gemini.isInitialized

\* sendMessage(userMessage) up to its await: not initialized throws;
\* otherwise chatSession.sendMessage is called.
GeminiSendMessage ==
    /\ gemini.request = "none"
    /\ IF ~gemini.isInitialized \/ ~gemini.chatSession
       THEN gemini' = [gemini EXCEPT !.result = Thrown("notInitialized")]
       ELSE /\ gemini.sent < MaxRequests
            /\ gemini' = [gemini EXCEPT !.request = "chat", !.sent = @ + 1,
                                        !.result = Thrown("none")]
    /\ UNCHANGED <<avatarVars, histVars, serviceVars, chat, synth, mic, convo>>

\* generateResponse(userMessage) up to its await
GeminiGenerateResponse ==
    /\ gemini.request = "none"
    /\ IF ~gemini.model
       THEN gemini' = [gemini EXCEPT !.result = Thrown("notInitialized")]
       ELSE /\ gemini.sent < MaxRequests
            /\ gemini' = [gemini EXCEPT !.request = "generate", !.sent = @ + 1,
                                        !.result = Thrown("none")]
    /\ UNCHANGED <<avatarVars, histVars, serviceVars, chat, synth, mic, convo>>

\* The model's reply arrives and is parsed.
GeminiReply(response) ==
    /\ gemini.request # "none"
    /\ gemini' = [gemini EXCEPT !.request = "none",
                                !.result = parseEmotionFromResponse(response)]
    /\ UNCHANGED <<avatarVars, histVars, serviceVars, chat, synth, mic, convo>>

\* The request fails: the error is logged and rethrown.
GeminiRequestFails ==
    /\ gemini.request # "none"
    /\ gemini' = [gemini EXCEPT !.request = "none", !.result = Thrown("failed")]
    /\ UNCHANGED <<avatarVars, histVars, serviceVars, chat, synth, mic, convo>>

\* resetChat(): a new chat session when there is a model (startChat may throw).
GeminiResetChat(ok) ==
    /\ gemini.model
    /\ gemini' = IF ok THEN [gemini EXCEPT !.chatSession = TRUE] ELSE gemini
    /\ UNCHANGED <<avatarVars, histVars, serviceVars, chat, synth, mic, convo>>

\* ------------------------------------------------------------------------
\* SpeechService recognition, the App's microphone and its messages
\* ------------------------------------------------------------------------
\* mic.recognition is what the browser's recognition session does: "idle",
\* "starting" (start() was called), "listening", or "ending" (stopped or
\* failed: its end event is to come).  mic.startQueued: the start event of
\* the session is still to be delivered.  Final transcripts are numbered
\* in the order delivered (eligible: those delivered while isMicActive and
\* isApiReady); pending 0 is the empty pendingTranscriptRef and interim 0
\* the empty interimTranscript.

\* Bounds: the final transcripts delivered, the messages kept, the
\* processMessage calls made outside the effect.
MaxFinals == 3
MaxMessages == 6
MaxCalls == 3

\* The texts processMessage is called with: empty, blank, a word.
Texts == {<<>>, <<" ">>, <<"s">>}

\* addMessage(sender, text, emotion): setMessages(prev => [...prev, new]) and,
\* with an emotion, setCurrentEmotion(emotion).  "none" is no emotion.
AddMessage(c, sender, text, tag) ==
    [c EXCEPT !.messages = Append(@, [sender |-> sender, emotion |-> tag,
                                      text |-> text]),
              !.currentEmotion = IF tag # "none" THEN tag ELSE @]

\* recognition.start() throws when the session is not idle.
StartThrows(m) == m.recognition # "idle"

\* recognition.start() and recognition.stop()
RecognitionStarted(m) == [m EXCEPT !.recognition = "starting", !.startQueued = TRUE]

RecognitionStopped(m) ==
    [m EXCEPT !.recognition = IF @ \in {"starting", "listening"} THEN "ending" ELSE @]

\* stopListening(): isListening = false; recognition.stop()
StopListeningResult(m) ==
    [RecognitionStopped(m) EXCEPT !.isListening = FALSE, !.stopped = TRUE]

\* startListening(): already listening returns true; otherwise
\* stopSpeaking() (cancels) and recognition.start(), whose throw returns false.
StartListeningResult(m) ==
    LET m1 == [m EXCEPT !.stopped = FALSE]
    IN  IF m.isListening
        THEN [mic |-> m1, started |-> TRUE, cancels |-> FALSE]
        ELSE IF StartThrows(m)
        THEN [mic |-> m1, started |-> FALSE, cancels |-> TRUE]
        ELSE [mic |-> RecognitionStarted(m1), started |-> TRUE, cancels |-> TRUE]

\* The dependencies of the pending-transcript effect, and whether they
\* changed since the effect last ran: the effect then runs before the App
\* handles anything else.
EffectDeps == <<mic.interim, mic.isMicActive, mic.isApiReady, chat.isLoading>>

EffectDue == EffectDeps # mic.seen

\* initializeApi(apiKey): await geminiService.initialize, setIsApiReady(true);
\* a throw leaves isApiReady false.
InitializeApi(outcome) ==
    /\ ~EffectDue
    /\ ~mic.isApiReady
    /\ gemini' = GeminiInitializeResult(gemini, outcome)
    /\ mic' = [mic EXCEPT !.isApiReady = (outcome = "ok")]
    /\ UNCHANGED <<avatarVars, histVars, serviceVars, chat, synth, convo>>

\* toggleMicrophone(), the microphone button (disabled while loading or
\* before the API is ready).
ToggleMicrophone ==
    /\ ~EffectDue
    /\ mic.isApiReady /\ ~chat.isLoading
    /\ IF mic.isMicActive
       THEN /\ mic' = [StopListeningResult(mic) EXCEPT !.isMicActive = FALSE, !.interim = 0]
            /\ UNCHANGED synth
       ELSE LET res == StartListeningResult(mic)
            IN  /\ mic' = [res.mic EXCEPT !.isMicActive = res.started]
                /\ synth' = IF res.cancels /\ synth.synthesis = "present"
                            THEN SynthesisCancel(synth) ELSE synth
    /\ UNCHANGED <<avatarVars, histVars, serviceVars, chat, gemini, convo>>

\* recognition.onstart: isListening = true
RecognitionStart ==
    /\ ~EffectDue
    /\ mic.startQueued
    /\ mic' = [mic EXCEPT !.startQueued = FALSE,
                          !.recognition = IF @ = "starting" THEN "listening" ELSE @,
                          !.isListening = TRUE]
    /\ UNCHANGED <<avatarVars, histVars, serviceVars, chat, synth, gemini, convo>>

\* recognition.onerror: the App's onError adds a message for not-allowed;
\* every error but no-speech clears isListening.  The session ends after it.
\* not-allowed comes instead of the start; no-speech and network while
\* listening.
RecognitionError(error) ==
    /\ ~EffectDue
    /\ IF error = "not-allowed"
       THEN mic.recognition = "starting" /\ mic.startQueued
       ELSE mic.recognition = "listening"
    /\ error = "not-allowed" => Len(convo.messages) < MaxMessages
    /\ mic' = [mic EXCEPT !.recognition = "ending", !.startQueued = FALSE,
                          !.isListening = IF error = "no-speech" THEN @ ELSE FALSE]
    /\ convo' = IF error = "not-allowed"
                THEN AddMessage(convo, "waifu", "allowMicrophone", "annoyed")
                ELSE convo
    /\ UNCHANGED <<avatarVars, histVars, serviceVars, chat, synth, gemini>>

\* recognition.onend, of a session that was stopped, failed or ended by
\* itself: while isListening the session is started again (a throw clears
\* isListening).  A start event not delivered by now is not delivered.
RecognitionEnd(throws) ==
    /\ ~EffectDue
    /\ mic.recognition \in {"listening", "ending"}
    /\ LET m == [mic EXCEPT !.recognition = "idle", !.startQueued = FALSE]
       IN  mic' = IF ~mic.isListening THEN m
                  ELSE IF throws THEN [m EXCEPT !.isListening = FALSE]
                  ELSE RecognitionStarted(m)
    /\ UNCHANGED <<avatarVars, histVars, serviceVars, chat, synth, gemini, convo>>

\* recognition.onresult while listening: the App's onResult keeps a final
\* transcript in pendingTranscriptRef and clears interimTranscript, and
\* shows an interim one (a text that differs from the one shown).
RecognitionResult(isFinal) ==
    /\ ~EffectDue
    /\ mic.recognition = "listening"
    /\ IF isFinal
       THEN /\ mic.finals < MaxFinals
            /\ mic' = [mic EXCEPT !.interim = 0, !.pending = mic.finals + 1,
                                  !.finals = @ + 1,
                                  !.eligible = IF mic.isMicActive /\ mic.isApiReady
                                               THEN @ \cup {mic.finals + 1} ELSE @]
       ELSE mic' = [mic EXCEPT !.interim = IF @ = 1 THEN 2 ELSE 1]
    /\ UNCHANGED <<avatarVars, histVars, serviceVars, chat, synth, gemini, convo>>

\* The pending-transcript effect, after a render that changed one of its
\* dependencies: a pending transcript is cleared and passed to
\* processMessage when the microphone is active, the API ready and no
\* message loading.
PendingEffect(k) ==
    /\ EffectDue
    /\ IF mic.pending # 0 /\ mic.isMicActive /\ mic.isApiReady /\ ~chat.isLoading
       THEN /\ ProcessMessage(k)
            /\ mic' = [mic EXCEPT !.pending = 0, !.seen = EffectDeps,
                                  !.processed = Append(@, mic.pending)]
            /\ convo' = [AddMessage(convo, "user", "transcript", "none")
                            EXCEPT !.last = "started"]
       ELSE /\ k = 1
            /\ mic' = [mic EXCEPT !.seen = EffectDeps]
            /\ UNCHANGED <<avatarVars, histVars, serviceVars, chat, synth, gemini, convo>>

\* The guard of processMessage without the trim().
ReturnsEarlyUntrimmed(text) == text = <<>> \/ chat.isLoading \/ ~mic.isApiReady

\* if (!userMessage.trim() || isLoading || !isApiReady) return
ReturnsEarly(text) == Trim(text) = <<>> \/ chat.isLoading \/ ~mic.isApiReady

\* processMessage(userMessage) called with `text`, up to its await of
\* sendMessageToWaifu: it returns at once, or adds the user's message and
\* sets isLoading.
ProcessMessageCall(k, text) ==
    /\ ~EffectDue
    /\ convo.call.n < MaxCalls
    /\ LET c == [convo EXCEPT !.call = [n |-> @.n + 1, text |-> text,
                                        loading |-> chat.isLoading,
                                        ready |-> mic.isApiReady]]
       IN  IF ReturnsEarly(text)
           THEN /\ k = 1
                /\ convo' = c
                /\ UNCHANGED <<avatarVars, histVars, serviceVars, chat, synth, gemini>>
           ELSE /\ ProcessMessage(k)
                /\ convo' = [AddMessage(c, "user", "typed", "none") EXCEPT !.last = "started"]
    /\ UNCHANGED mic

\* processMessage after "await sendMessageToWaifu": the reply is added and
\* spoken, or, when the request failed, the apology with emotion
\* embarrassed.
ReplyArrives(k, ok, tag, supported) ==
    /\ SpeakResponse(k, supported)
    /\ convo' = [AddMessage(convo, "waifu", IF ok THEN "reply" ELSE "apology",
                            IF ok THEN tag ELSE "embarrassed")
                    EXCEPT !.last = IF ok THEN "replied" ELSE "failed"]
    /\ UNCHANGED mic

\* ------------------------------------------------------------------------
\* Specifications
\* ------------------------------------------------------------------------
\* Every specification runs the same callback; each draws the callback's
\* inputs from the sets its properties are about and stops after a number of
\* frames.

\* Frames run by each specification.
PoseFrames == 22
BlinkFrames == 400
EmotionFrames == 26
LipFrames == 31

\* Pose director: 2 frames per second, isSpeaking and the emotion change at
\* will, every Math.random() result of the pose choice.
PoseInputs ==
    FrameInputs({Secs(1, 2)}, BOOLEAN, {0}, {"neutral", "shy", "angry", "happy"},
                {0}, {0 - One}, {0}, {0}, RandomDraws)

NextPose ==
    \/ LoadVrm
    \/ /\ frame.n < PoseFrames
       /\ \E in \in PoseInputs : Tick(in) /\ CountSteady(in)
       /\ UNCHANGED <<silentTicks, labelTicks, twin>>

SpecPose == Init /\ [][NextPose]_vars

\* Blink scheduler: 30 frames per second, every Math.random() result of the
\* blink timer.
BlinkInputs ==
    FrameInputs({Secs(1, 30)}, {FALSE}, {0}, {"neutral"}, {0}, {0}, {0}, RandomDraws, {0})

NextBlink ==
    \/ LoadVrm
    \/ /\ frame.n < BlinkFrames
       /\ \E in \in BlinkInputs : Tick(in)
       /\ UNCHANGED histVars

SpecBlink == Init /\ [][NextBlink]_vars

\* Emotion blender: 60 frames per second, the label changes at will.
EmotionInputs ==
    FrameInputs({Secs(1, 60)}, {FALSE}, {0}, {"neutral", "angry", "annoyed", "shy", "loving"},
                {0}, {0}, {0}, {0}, {0})

NextEmotion ==
    \/ LoadVrm
    \/ /\ frame.n < EmotionFrames
       /\ \E in \in EmotionInputs : Tick(in) /\ CountLabel(in)
       /\ UNCHANGED <<silentTicks, steadyTicks, twin>>

SpecEmotion == Init /\ [][NextEmotion]_vars

\* Lip sync: each callback is silent (isSpeaking false), or speaking with a
\* real audio level (and any sample of sin(time * 15)), or speaking without
\* one (and any extreme of the three simulated waves, two Math.random()
\* results).
LipInputs ==
    FrameInputs({Secs(1, 60)}, {FALSE}, {0}, {"neutral"},
                {0}, {0}, {0}, {0}, {0})
    \cup
    FrameInputs({Secs(1, 60)}, {TRUE}, {One}, {"neutral"},
                {0 - One, 0, One}, {0}, {0}, {0}, {0})
    \cup
    FrameInputs({Secs(1, 60)}, {TRUE}, {0}, {"neutral"},
                {0}, {0 - One, One}, {0, (One * 9) \div 10}, {0}, {0})

NextLip ==
    \/ LoadVrm
    \/ /\ frame.n < LipFrames
       /\ \E in \in LipInputs : Tick(in) /\ CountSilent(in)
       /\ UNCHANGED <<labelTicks, steadyTicks, twin>>

SpecLip == Init /\ [][NextLip]_vars


\* Audio level extractor: speak() calls, their awaits and element events in
\* any order, every frame of AudioFrames on each analysis tick.
NextAudio ==
    \/ Initialize
    \/ \E k \in CallIds : Speak(k)
    \/ \E k \in CallIds, ok \in BOOLEAN, suspended \in BOOLEAN : FetchDone(k, ok, suspended)
    \/ \E k \in CallIds, ok \in BOOLEAN : ResumeDone(k, ok)
    \/ \E k \in CallIds, allowed \in BOOLEAN : SetHandlersAndPlay(k, allowed)
    \/ \E k \in CallIds : PlayDone(k)
    \/ \E e \in CallIds, data \in AudioFrames : OnPlay(e, data)
    \/ \E id \in raf.pending, data \in AudioFrames : AnimationFrame(id, data)
    \/ \E e \in CallIds, error \in BOOLEAN : OnEndedOrError(e, error)
    \/ Stop

SpecAudio == Init /\ [][NextAudio]_vars


\* The App: the mount effect may initialize ElevenLabs; then messages, their
\* replies, the service's awaits and events, the utterances' events, the stop
\* button and the microphone in any order.  The analysis ticks read silence
\* or full-scale voice bins.
AppAudioFrames == {BandFrame(0, 0, 0), BandFrame(0, 255, 0)}

NextApp ==
    \/ (\A k \in CallIds : chat.pc[k] = "idle") /\ Initialize
    \/ \E k \in CallIds : ProcessMessage(k) /\ UNCHANGED <<mic, convo>>
    \/ \E k \in CallIds, supported \in BOOLEAN :
           SpeakResponse(k, supported) /\ UNCHANGED <<mic, convo>>
    \/ \E k \in CallIds, supported \in BOOLEAN : SpeakSettled(k, supported)
    \/ ~SettlePending /\ \E k \in CallIds, ok \in BOOLEAN, suspended \in BOOLEAN :
                             FetchDone(k, ok, suspended)
    \/ ~SettlePending /\ \E k \in CallIds, ok \in BOOLEAN : ResumeDone(k, ok)
    \/ ~SettlePending /\ \E k \in CallIds, allowed \in BOOLEAN : SetHandlersAndPlay(k, allowed)
    \/ ~SettlePending /\ \E k \in CallIds : PlayDone(k)
    \/ ~SettlePending /\ \E e \in CallIds, data \in AppAudioFrames : OnPlay(e, data)
    \/ ~SettlePending /\ \E id \in raf.pending, data \in AppAudioFrames : AnimationFrame(id, data)
    \/ ~SettlePending /\ \E e \in CallIds, error \in BOOLEAN : OnEndedOrError(e, error)
    \/ \E u \in CallIds : UtteranceBegins(u)
    \/ \E u \in CallIds : UtteranceEnds(u)
    \/ StopSpeaking
    \/ StartListening

SpecApp == Init /\ [][NextApp]_vars

\* The App with its stop button rendered only while isSpeaking is true
\* ("{isSpeaking && (...)}"), and with every continuation and event that can
\* run eventually running: replies arrive, promises settle, queued events are
\* delivered, and what plays ends or fails.  Sending a message, the stop
\* button and the microphone are up to the user.
ReplyProgress ==
    \/ \E k \in CallIds, supported \in BOOLEAN :
           SpeakResponse(k, supported) /\ UNCHANGED <<mic, convo>>
    \/ \E k \in CallIds, supported \in BOOLEAN : SpeakSettled(k, supported)
    \/ ~SettlePending /\ \E k \in CallIds, ok \in BOOLEAN, suspended \in BOOLEAN :
                             FetchDone(k, ok, suspended)
    \/ ~SettlePending /\ \E k \in CallIds, ok \in BOOLEAN : ResumeDone(k, ok)
    \/ ~SettlePending /\ \E k \in CallIds, allowed \in BOOLEAN : SetHandlersAndPlay(k, allowed)
    \/ ~SettlePending /\ \E k \in CallIds : PlayDone(k)
    \/ ~SettlePending /\ \E e \in CallIds, data \in AppAudioFrames : OnPlay(e, data)
    \/ ~SettlePending /\ \E id \in raf.pending, data \in AppAudioFrames : AnimationFrame(id, data)
    \/ ~SettlePending /\ \E e \in CallIds, error \in BOOLEAN : OnEndedOrError(e, error)
    \/ \E u \in CallIds : UtteranceBegins(u)
    \/ \E u \in CallIds : UtteranceEnds(u)

NextReply ==
    \/ (\A k \in CallIds : chat.pc[k] = "idle") /\ Initialize
    \/ \E k \in CallIds : ProcessMessage(k) /\ UNCHANGED <<mic, convo>>
    \/ ReplyProgress
    \/ app.isSpeaking /\ StopSpeaking
    \/ StartListening

SpecReply == Init /\ [][NextReply]_vars /\ WF_vars(ReplyProgress)


\* Emotion labels from outside the EmotionTag type: 6 frames per second, not
\* speaking, the label is happy or one of UnknownTags and changes at will,
\* every Math.random() result of the pose choice.
LabelFrames == 64

LabelInputs ==
    FrameInputs({Secs(1, 6)}, {FALSE}, {0}, {"happy"} \cup UnknownTags,
                {0}, {0}, {0}, {0}, RandomDraws)

NextLabel ==
    \/ LoadVrm
    \/ /\ frame.n < LabelFrames
       /\ \E in \in LabelInputs : Tick(in)
       /\ UNCHANGED histVars

SpecLabel == Init /\ [][NextLabel]_vars

\* Two runs of the callbacks: 2 frames per second; both receive the same
\* delta and the same Math.random() results for the blink timer.  The first
\* run is neutral and speaks or not, without an audio level; the second
\* receives any isSpeaking, audioLevel and emotion on every frame.
TwinFrames == 10

TwinInputs ==
    FrameInputs({Secs(1, 2)}, BOOLEAN, {0}, {"neutral"},
                {0}, {0}, {0}, RandomDraws, {0})

TwinOtherInputs ==
    FrameInputs({Secs(1, 2)}, BOOLEAN, {0, One}, {"neutral", "angry"},
                {0}, {0}, {0}, RandomDraws, {0})

SameBlinkInputs(in, other) ==
    /\ in.dt = other.dt
    /\ in.randomBlinkStart = other.randomBlinkStart
    /\ in.randomBlinkEnd = other.randomBlinkEnd

NextTwin ==
    \/ LoadVrm
    \/ /\ frame.n < TwinFrames
       /\ \E in \in TwinInputs, other \in TwinOtherInputs :
              SameBlinkInputs(in, other) /\ Tick(in) /\ TwinTick(other)
       /\ UNCHANGED <<silentTicks, labelTicks, steadyTicks>>

SpecTwin == Init /\ [][NextTwin]_vars

\* Sustained full level: 60 frames per second from the closed mouth, every
\* frame speaking with audioLevel 1.0, any of SineSteps * 2 + 1 samples of
\* sin(time * 15).
LoudFrames == 20
SineSteps == 5

SineSamples == {(k * One) \div SineSteps : k \in 0 .. SineSteps}
               \cup {0 - (k * One) \div SineSteps : k \in 0 .. SineSteps}

LoudInputs ==
    FrameInputs({Secs(1, 60)}, {TRUE}, {One}, {"neutral"},
                SineSamples, {0}, {0}, {0}, {0})

NextLoud ==
    \/ LoadVrm
    \/ /\ frame.n < LoudFrames
       /\ \E in \in LoudInputs : Tick(in)
       /\ UNCHANGED histVars

SpecLoud == Init /\ [][NextLoud]_vars

\* Expression fades: 12 frames per second, not speaking, any of the 13
\* labels on every frame.
FadeFrames == 9

FadeInputs ==
    FrameInputs({Secs(1, 12)}, {FALSE}, {0}, EmotionTags, {0}, {0}, {0}, {0}, {0})

NextFade ==
    \/ LoadVrm
    \/ /\ frame.n < FadeFrames
       /\ \E in \in FadeInputs : Tick(in) /\ CountLabel(in)
       /\ UNCHANGED <<silentTicks, steadyTicks, twin>>

SpecFade == Init /\ [][NextFade]_vars

\* The Avatar under the extractor: the service's calls, awaits and events as
\* in SpecAudio (analysis ticks read silence or full-scale voice bins), and
\* frame callbacks at 60 frames per second whose isSpeaking and audioLevel are
\* the App's state, as the state callback last set it; the sines are at an
\* extreme.
LiveFrames == 2

LiveInputs ==
    FrameInputs({Secs(1, 60)}, {app.isSpeaking}, {app.audioLevel}, {"neutral"},
                {0 - One, One}, {One}, {0}, {0}, {0})

NextLive ==
    \/ Initialize
    \/ \E k \in CallIds : Speak(k)
    \/ \E k \in CallIds, ok \in BOOLEAN, suspended \in BOOLEAN : FetchDone(k, ok, suspended)
    \/ \E k \in CallIds, ok \in BOOLEAN : ResumeDone(k, ok)
    \/ \E k \in CallIds, allowed \in BOOLEAN : SetHandlersAndPlay(k, allowed)
    \/ \E k \in CallIds : PlayDone(k)
    \/ \E e \in CallIds, data \in AppAudioFrames : OnPlay(e, data)
    \/ \E id \in raf.pending, data \in AppAudioFrames : AnimationFrame(id, data)
    \/ \E e \in CallIds, error \in BOOLEAN : OnEndedOrError(e, error)
    \/ Stop
    \/ LoadVrm
    \/ /\ frame.n < LiveFrames
       /\ \E in \in LiveInputs : Tick(in)
       /\ UNCHANGED histVars

SpecLive == Init /\ [][NextLive]_vars

\* Bones: 2 frames per second, speaking or not at will, neutral or happy,
\* every Math.random() result of the pose choice, the sines of the speaking
\* head movement at an extreme.
BoneFrames == 13

BoneInputs ==
    [dt : {Secs(1, 2)}, isSpeaking : BOOLEAN, audioLevel : {0},
     currentEmotion : {"neutral", "happy"},
     sin15 : {0}, sin12 : {0}, sin18 : {0}, sin25 : {0},
     sinHeadX : {0 - One, One}, sinHeadY : {One}, sinHeadZ : {0 - One},
     randomLip : {0}, randomBlinkStart : {0}, randomBlinkEnd : {0},
     randomPose : RandomDraws]

NextBones ==
    \/ LoadVrm
    \/ /\ frame.n < BoneFrames
       /\ \E in \in BoneInputs : Tick(in)
       /\ UNCHANGED histVars

SpecBones == Init /\ [][NextBones]_vars

\* Blink recurrence: 2 frames per second, every
\* Math.random() result of the blink timer; every frame that can run does
\* run (the renderer calls the useFrame callbacks on every rendered frame).
RecurFrames == 40

RecurInputs ==
    FrameInputs({Secs(1, 2)}, {FALSE}, {0}, {"neutral"}, {0}, {0}, {0},
                RandomDraws, {0})

RecurTick ==
    /\ frame.n < RecurFrames
    /\ \E in \in RecurInputs : Tick(in)
    /\ UNCHANGED histVars

NextRecur ==
    \/ LoadVrm
    \/ RecurTick

SpecRecur == Init /\ [][NextRecur]_vars /\ WF_vars(LoadVrm) /\ WF_vars(RecurTick)

\* Frame gaps: a callback follows the previous one after half a second or,
\* as after a stall of the render loop, after 3 seconds; isSpeaking changes
\* at will, every Math.random() result of the pose choice.
GapFrames == 5

GapInputs ==
    FrameInputs({Secs(1, 2), Secs(3, 1)}, BOOLEAN, {0}, {"neutral"}, {0}, {0}, {0}, {0},
                RandomDraws)

NextGap ==
    \/ LoadVrm
    \/ /\ frame.n < GapFrames
       /\ \E in \in GapInputs : Tick(in)
       /\ UNCHANGED histVars

SpecGap == Init /\ [][NextGap]_vars

\* The microphone: the API key is accepted or not, the button is pressed at
\* any time, the recognition session delivers its events in every order,
\* transcripts arrive, their messages are answered (the request succeeds
\* or fails) and spoken by the browser.
NextMic ==
    \/ \E outcome \in {"ok", "modelThrows", "chatThrows"} : InitializeApi(outcome)
    \/ ToggleMicrophone
    \/ RecognitionStart
    \/ \E error \in {"no-speech", "not-allowed", "network"} : RecognitionError(error)
    \/ \E throws \in BOOLEAN : RecognitionEnd(throws)
    \/ \E isFinal \in BOOLEAN : RecognitionResult(isFinal)
    \/ \E k \in CallIds : PendingEffect(k)
    \/ ~EffectDue /\ \E k \in CallIds, ok \in BOOLEAN : ReplyArrives(k, ok, "happy", TRUE)

SpecMic == Init /\ [][NextMic]_vars

\* The conversation: the API key is accepted or not, ElevenLabs is set up
\* or not, processMessage is called with any text at any time, the request
\* succeeds (with any of three emotions) or fails, and the reply or the
\* apology is spoken by ElevenLabs, by the browser, or by the browser after
\* ElevenLabs failed.
NextChat ==
    \/ \E outcome \in {"ok", "modelThrows", "chatThrows"} : InitializeApi(outcome)
    \/ (\A k \in CallIds : chat.pc[k] = "idle") /\ Initialize
    \/ \E k \in CallIds : PendingEffect(k)
    \/ \E k \in CallIds, text \in Texts : ProcessMessageCall(k, text)
    \/ ~EffectDue /\ \E k \in CallIds, ok \in BOOLEAN, tag \in {"happy", "sad", "embarrassed"},
                         supported \in BOOLEAN : ReplyArrives(k, ok, tag, supported)
    \/ \E k \in CallIds, supported \in BOOLEAN : SpeakSettled(k, supported)
    \/ ~SettlePending /\ \E k \in CallIds, ok \in BOOLEAN, suspended \in BOOLEAN :
                             FetchDone(k, ok, suspended)
    \/ ~SettlePending /\ \E k \in CallIds, ok \in BOOLEAN : ResumeDone(k, ok)
    \/ ~SettlePending /\ \E k \in CallIds, allowed \in BOOLEAN : SetHandlersAndPlay(k, allowed)
    \/ ~SettlePending /\ \E k \in CallIds : PlayDone(k)
    \/ ~SettlePending /\ \E e \in CallIds, data \in AppAudioFrames : OnPlay(e, data)
    \/ ~SettlePending /\ \E e \in CallIds, error \in BOOLEAN : OnEndedOrError(e, error)
    \/ \E u \in CallIds : UtteranceEnds(u)

SpecChat == Init /\ [][NextChat]_vars

\* GeminiService: initialize() with each of its outcomes, sendMessage,
\* generateResponse and resetChat at any time, every reply of Responses.
NextGemini ==
    \/ \E outcome \in {"ok", "modelThrows", "chatThrows"} : GeminiInitialize(outcome)
    \/ GeminiSendMessage
    \/ GeminiGenerateResponse
    \/ gemini.request # "none" /\ \E response \in Responses : GeminiReply(response)
    \/ GeminiRequestFails
    \/ \E ok \in BOOLEAN : GeminiResetChat(ok)

SpecGemini == Init /\ [][NextGemini]_vars


\* ------------------------------------------------------------------------
\* Properties
\* ------------------------------------------------------------------------

\* A callback ran in this step.
FrameRan == frame'.n # frame.n

\* C1: every pose decision chooses a target pose index that differs from the
\* target of the previous decision (0 before the first), and the target is
\* always an index 0..4 of the catalog.
C1_NoImmediateRepeat ==
    [][FrameRan =>
        /\ poseAnim'.targetPoseIndex \in 0 .. NumPoses - 1
        /\ (poseAnim'.poseTimer = 0 \/ frame'.decided) =>
               poseAnim'.targetPoseIndex # poseAnim.targetPoseIndex]_vars

\* A decision while not speaking with emotion shy, taken when the previous
\* target was already the shy pose: the choice 3 was advanced to 4.
C1_Witness ==
    /\ frame.decided /\ ~frame.isSpeaking /\ emotion.current = "shy"
    /\ poseAnim.currentPoseIndex = 3 /\ poseAnim.targetPoseIndex = 4

\* C2: a blink in progress has lasted at most 0.15 s plus one tick: once a
\* blink starts it ends after 0.15 s of accumulated dt, to within one tick.
C2_BlinkEndsWithinDuration == frame.blinkAge <= BlinkDuration + frame.dt

\* C3: at the end of every tick, if isBlinking is false the blink weight is 0.
C3_BlinkWeightZeroWhenIdle == ~blink.isBlinking => expr["blink"] = 0

\* The tick that ended a blink: the blink block ran and isBlinking is false.
C3_Witness == frame.blinkActive /\ ~blink.isBlinking /\ frame.blinkAge > 0

\* C4: while a blink is in progress the progress 1 - timer/0.15 is in [0,1)
\* and the weight written to the blink channel is in [0,1].
C4_BlinkProgressInRange ==
    (frame.blinkActive /\ blink.isBlinking) =>
        /\ 0 <= frame.blinkProgress /\ frame.blinkProgress < One
        /\ 0 <= expr["blink"] /\ expr["blink"] <= One

\* C5: currentAudioLevel (and the level passed to the state callback) is
\* within [0,1] after any sequence of analysis ticks, playback events,
\* speak() and stop() calls.
C5_AudioLevelInRange ==
    /\ 0 <= tts.currentAudioLevel /\ tts.currentAudioLevel <= One
    /\ 0 <= notified.audioLevel /\ notified.audioLevel <= One

\* Playing, with a level above 0.9: two analysis ticks on full-scale bins,
\* whose normalised value (225/150) is clamped to 1.
C5_Witness == tts.isPlaying /\ tts.currentAudioLevel > (One * 9) \div 10

\* C6: on every tick the mouth-open value is within [0,1], and the viseme
\* channels hold primaryOpen = 0.9 * open and roundedOpen = 0.4 * open, both
\* within [0,1].
C6_VisemesInRange ==
    /\ 0 <= lipSync.value /\ lipSync.value <= One
    /\ expr["aa"] = (lipSync.value * 9) \div 10
    /\ expr["oh"] = (lipSync.value * 4) \div 10
    /\ 0 <= expr["aa"] /\ expr["aa"] <= One
    /\ 0 <= expr["oh"] /\ expr["oh"] <= One

\* A speaking tick whose mouth-open value was clamped to 1.
C6_Witness ==
    frame.isSpeaking /\ lipSync.value = One /\ expr["aa"] = (One * 9) \div 10

\* C7 as claimed: after 5 or more consecutive ticks with isSpeaking false and
\* audioLevel 0, primaryOpen is below 0.01.
C7_ClosedAfterFiveTicks == silentTicks >= 5 => expr["aa"] < One \div 100

\* C7 as amended: after 28 or more consecutive ticks with isSpeaking false and
\* audioLevel 0, primaryOpen is below 0.01.
C7_ClosedAfterTwentyEightTicks == silentTicks >= 28 => expr["aa"] < One \div 100

\* 28 silent ticks after a fully open mouth: primaryOpen is 0.9 * 0.85^28.
C7_Witness == silentTicks = 28 /\ expr["aa"] > (One * 9) \div 1000

\* C8: blendValue is within [0,1]; it does not decrease in a tick whose
\* requested label equals the stored one; a tick whose requested label
\* differs restarts it from 0 and ends at min(1, 3 * dt).
C8_BlendMonotoneBetweenChanges ==
    [][FrameRan =>
        /\ 0 <= emotion'.blendValue /\ emotion'.blendValue <= One
        /\ emotion'.current = emotion.current =>
               /\ emotion'.blendValue >= emotion.blendValue
               /\ emotion'.blendValue = Min(One, emotion.blendValue + (frame'.dt * 3 * One) \div TimeRes)
        /\ emotion'.current # emotion.current =>
               emotion'.blendValue = Min(One, (frame'.dt * 3 * One) \div TimeRes)]_vars

\* The tick of a change from a fully blended neutral to angry.
C8_Witness ==
    /\ emotion.current = "angry" /\ labelTicks = 1
    /\ expr["neutral"] = (One * 7) \div 10
    /\ emotion.blendValue = One \div 20

\* C9: with dt = 1/60, k ticks after the label changed to angry the angry
\* weight is 0.7 * k/20 for k <= 20: exactly 0.7 at the end of the 20th tick,
\* and 0.7 at the end of every later tick while the label is unchanged.
C9_AngryReachesPeak ==
    (emotion.current = "angry" /\ frame.dt = Secs(1, 60)) =>
        expr["angry"] * 20 = ((One * 7) \div 10) * Min(labelTicks, 20)

\* The 20th tick after a change from neutral (whose channel keeps its weight).
C9_Witness ==
    /\ emotion.current = "angry" /\ labelTicks = 20 /\ expr["neutral"] > 0
    /\ expr["angry"] = (One * 7) \div 10

\* poseTimer after adding the tick's dt.
PoseTimerInTick == poseAnim.poseTimer + frame'.dt

\* C10 as claimed: when isSpeaking has kept its value since the previous
\* decision, the decision is taken in the tick where poseTimer has accumulated
\* exactly 2.5 s (speaking) or 5.0 s (not speaking).
C10_DecisionAtExactInterval ==
    [][(/\ FrameRan
        /\ steadyTicks' * frame'.dt >= PoseTimerInTick
        /\ PoseTimerInTick = PoseChangeInterval(frame'.isSpeaking)) =>
           /\ poseAnim'.poseTimer = 0
           /\ poseAnim'.targetPoseIndex # poseAnim.targetPoseIndex]_vars

\* C10 as amended: the decision is taken in the tick where poseTimer, after
\* adding dt, is strictly above 2.5 s (speaking) or 5.0 s (not speaking), and
\* in no other tick; it chooses a new target, re-bases on the previous one and
\* restarts blendFactor from 0; blendFactor then is (poseTimer + dt) / 1.5,
\* so it is 1.0 once 1.5 s of dt (the decision tick's included) accumulated.
C10_DecisionAfterInterval ==
    [][FrameRan =>
        /\ PoseTimerInTick > PoseChangeInterval(frame'.isSpeaking) =>
               /\ poseAnim'.poseTimer = 0
               /\ poseAnim'.targetPoseIndex # poseAnim.targetPoseIndex
               /\ poseAnim'.currentPoseIndex = poseAnim.targetPoseIndex
               /\ poseAnim'.blendFactor = frame'.dt * (One \div Secs(3, 2))
        /\ PoseTimerInTick <= PoseChangeInterval(frame'.isSpeaking) =>
               /\ poseAnim'.poseTimer = PoseTimerInTick
               /\ poseAnim'.targetPoseIndex = poseAnim.targetPoseIndex
        /\ poseAnim'.targetPoseIndex # poseAnim'.currentPoseIndex =>
               poseAnim'.blendFactor =
                   Min(One, (poseAnim'.poseTimer + frame'.dt) * (One \div Secs(3, 2)))]_vars

\* A decision taken while speaking, one tick after poseTimer was exactly 2.5 s.
C10_Witness ==
    /\ frame.decided /\ frame.isSpeaking
    /\ steadyTicks * frame.dt = Secs(5, 2) + frame.dt
    /\ poseAnim.poseTimer = 0

\* The service is stopped: nothing is playing, no analysis tick is pending,
\* the level is 0 and the state callback last received isPlaying false and
\* audioLevel 0.
AnalysisStopped ==
    /\ ~tts.isPlaying /\ tts.animationFrameId = 0 /\ raf.pending = {}
    /\ tts.currentAudioLevel = 0
    /\ notified = [isPlaying |-> FALSE, audioLevel |-> 0]

\* This step is onended, onerror or stop() (called directly or by speak()).
PlaybackStops ==
    \/ Stop
    \/ \E e \in CallIds, error \in BOOLEAN : OnEndedOrError(e, error)
    \/ \E k \in CallIds : tts.isInitialized /\ Speak(k)

\* This step is the onplay handler of an element.
PlaybackStarts == \E e \in CallIds, data \in AudioFrames : OnPlay(e, data)

UtteranceSpeaking == \E u \in CallIds : synth.utterance[u] = "speaking"

\* C12: when the ElevenLabs speak() of a reply failed, or ElevenLabs is not
\* in use, and the browser speaks the reply (no other utterance was ever
\* queued), then while that utterance is being spoken isSpeaking is true and
\* audioLevel is 0.
C12_FallbackKeepsSpeaking ==
    \A k \in CallIds :
        (/\ synth.utterance[k] = "speaking"
         /\ \A j \in CallIds \ {k} : synth.utterance[j] = "none") =>
            app.isSpeaking /\ app.audioLevel = 0

\* C13: while a voice is playing (an ElevenLabs element or a browser
\* utterance) and no ElevenLabs speak() has failed, isSpeaking is true.
C13_SpeakingWhileVoicePlays ==
    (/\ \A k \in CallIds : calls[k].pc # "failed"
     /\ UtteranceSpeaking \/ \E e \in CallIds : elements[e].state = "playing") =>
        app.isSpeaking

\* C14: the emotion parsed from a reply is one of the 13 EmotionTag values.
C14_EmotionIsLabel ==
    gemini.result.kind = "parsed" => gemini.result.emotion \in EmotionTagNames

\* C18: sendMessage called while the service is not initialized throws the
\* 'not initialized' error, sends nothing to the model and changes no field
\* of the service; and whenever isReady() is true there is a chat session.
C18_NotInitializedThrows ==
    [][/\ (GeminiSendMessage /\ ~GeminiIsReady) =>
              /\ gemini'.result = Thrown("notInitialized")
              /\ gemini' = [gemini EXCEPT !.result = Thrown("notInitialized")]
       /\ gemini'.isInitialized => gemini'.chatSession]_vars

\* sendMessage has thrown 'not initialized' after an initialize() that built
\* the model and failed to start the chat.
C18_Witness ==
    /\ gemini.result = Thrown("notInitialized")
    /\ gemini.model /\ ~gemini.chatSession /\ ~GeminiIsReady /\ gemini.sent = 0

\* The targets a decision can choose from the idle list [0, 0, 4, 4, 1] when
\* the previous target is prev.
IdleTargets(prev) == {IF p = prev THEN (p + 1) % NumPoses ELSE p : p \in {0, 4, 1}}

\* C15: a tick that receives an emotion outside the 13 labels completes; it
\* raises no expression channel (happy, angry, sad, surprised and relaxed lose
\* 3 * dt, not below 0, the others keep their weight); and a pose decision it
\* takes while not speaking chooses from the idle list, as for any emotion
\* without a pose of its own.
C15_UnknownEmotionIsInert ==
    [][(FrameRan /\ emotion'.current \notin EmotionTags) =>
        /\ frame'.n = frame.n + 1
        /\ \A c \in expressionsToReset :
               expr'[c] = Max(0, expr[c] - (frame'.dt * 3 * One) \div TimeRes)
        /\ expr'["neutral"] = expr["neutral"]
        /\ (frame'.decided /\ ~frame'.isSpeaking) =>
               poseAnim'.targetPoseIndex \in IdleTargets(poseAnim.targetPoseIndex)]_vars

\* A decision taken in a tick whose emotion is no label, while the happy
\* channel of the previous label is still fading.
C15_Witness ==
    /\ frame.decided /\ ~frame.isSpeaking
    /\ emotion.current \in UnknownTags /\ expr["happy"] > 0

C17_LoudMouthNearPeak ==
    /\ expr["aa"] <= (One * 9) \div 10
    /\ frame.n >= 10 => expr["aa"] >= (One * 8) \div 10

\* The 10th tick with sin(time * 15) = -1: primaryOpen is 0.9 * (0.9999 - 0.1).
C17_Witness ==
    /\ frame.n = 10 /\ frame.isSpeaking
    /\ expr["aa"] < (One * 81) \div 100 /\ lipSync.smoothedLevel > (One * 99) \div 100

\* The pose the code assigns to an emotion that has one (0 - 1: none).
EmotionPose(e) ==
    IF e \in {"shy", "embarrassed"} THEN 3
    ELSE IF e \in {"angry", "annoyed", "proud"} THEN 1
    ELSE IF e \in {"excited", "happy"} THEN 2
    ELSE 0 - 1

\* A pose decision was taken in this step, not speaking, for an emotion that
\* has a pose of its own.
EmotionDecision ==
    /\ FrameRan /\ frame'.decided /\ ~frame'.isSpeaking
    /\ EmotionPose(emotion'.current) >= 0

\* C19 as claimed: a decision taken while not speaking chooses Shy (3) for
\* shy/embarrassed, ArmsCrossed (1) for angry/annoyed/proud and Waving (2) for
\* excited/happy, whatever the previous pose.
C19_PoseFollowsEmotion ==
    [][EmotionDecision => poseAnim'.targetPoseIndex = EmotionPose(emotion'.current)]_vars

\* C19 as amended: the decision chooses the emotion's pose unless that pose
\* is the previous target; then it chooses the next index: TouchingHead (4)
\* instead of Shy, Waving (2) instead of ArmsCrossed, Shy (3) instead of
\* Waving.
C19_PoseFollowsEmotionNoRepeat ==
    [][EmotionDecision =>
        LET pose == EmotionPose(emotion'.current)
        IN  poseAnim'.targetPoseIndex =
                IF pose = poseAnim.targetPoseIndex THEN (pose + 1) % NumPoses ELSE pose]_vars

\* Two decisions in a row with emotion happy, not speaking: Waving, then Shy.
C19_Witness ==
    /\ frame.decided /\ ~frame.isSpeaking /\ emotion.current = "happy"
    /\ poseAnim.currentPoseIndex = 2 /\ poseAnim.targetPoseIndex = 3

\* A pose decision was taken in this step while speaking.
SpeakingDecision == FrameRan /\ frame'.decided /\ frame'.isSpeaking

\* C20 as claimed: a decision taken while speaking chooses ArmsCrossed (1),
\* Waving (2) or TouchingHead (4), never Relaxed (0) or Shy (3).
C20_SpeakingPoseIsCandidate ==
    [][SpeakingDecision => poseAnim'.targetPoseIndex \in {1, 2, 4}]_vars

\* C20 as amended: the decision chooses one of the candidates 1, 2, 4 that
\* is not the previous target, or the index after the previous target when
\* that is a candidate: Waving after ArmsCrossed, Shy (3) after Waving,
\* Relaxed (0) after TouchingHead.
C20_SpeakingPoseNoRepeat ==
    [][SpeakingDecision =>
        LET prev == poseAnim.targetPoseIndex
        IN  poseAnim'.targetPoseIndex \in
                ({1, 2, 4} \ {prev}) \cup
                (IF prev \in {1, 2, 4} THEN {(prev + 1) % NumPoses} ELSE {})]_vars

\* Two decisions in a row while speaking: Waving, then Shy.
C20_Witness ==
    /\ frame.decided /\ frame.isSpeaking
    /\ poseAnim.currentPoseIndex = 2 /\ poseAnim.targetPoseIndex = 3

\* C21: a pose decision makes the previous target the current pose and
\* restarts blendFactor from 0; every tick adds dt / 1.5 to blendFactor, not
\* above 1 (the decision tick adds it to the 0 it restarted from); so
\* blendFactor is within [0,1] and does not decrease in a tick without a
\* decision.
C21_BlendRestartsAndGrows ==
    [][FrameRan =>
        /\ 0 <= poseAnim'.blendFactor /\ poseAnim'.blendFactor <= One
        /\ frame'.decided =>
               /\ poseAnim'.currentPoseIndex = poseAnim.targetPoseIndex
               /\ poseAnim'.blendFactor = Min(One, (frame'.dt * One * 2) \div (TimeRes * 3))
        /\ ~frame'.decided =>
               /\ poseAnim'.currentPoseIndex = poseAnim.currentPoseIndex
               /\ poseAnim'.blendFactor >= poseAnim.blendFactor
               /\ poseAnim'.blendFactor =
                      Min(One, poseAnim.blendFactor + (frame'.dt * One * 2) \div (TimeRes * 3))]_vars

\* The tick after a blend completed: blendFactor stays at 1, from a pose
\* other than the initial one to another.
C21_Witness ==
    /\ ~frame.decided /\ poseAnim.blendFactor = One
    /\ poseAnim.poseTimer >= Secs(2, 1)
    /\ poseAnim.currentPoseIndex # 0
    /\ poseAnim.targetPoseIndex # poseAnim.currentPoseIndex
\* The standard channel each label writes, "none" for neutral: the keys of
\* emotionToVRMExpression whose preset is one of expressionsToReset, and the
\* custom blend of embarrassed and shy.
LabelChannel(e) ==
    IF e \in {"happy", "excited", "proud", "embarrassed", "shy"} THEN "happy"
    ELSE IF e \in {"angry", "annoyed"} THEN "angry"
    ELSE IF e \in {"sad", "worried"} THEN "sad"
    ELSE IF e \in {"surprised", "confused"} THEN "surprised"
    ELSE IF e = "loving" THEN "relaxed"
    ELSE "none"

\* The peak of a label's channel in tenths: 0.3 for the custom blend, else 0.7.
LabelPeak(e) == IF e \in {"embarrassed", "shy"} THEN 3 ELSE 7

\* delta * emotionSpeed of the last callback.
FadeStep(dt) == (dt * 3 * One) \div TimeRes

\* C22: at the end of every tick whose label is one of the 12 non-neutral
\* labels, the channel of the label holds blendValue * peak: happy at 0.7 for
\* happy/excited/proud, angry at 0.7 for angry/annoyed, sad at 0.7 for
\* sad/worried, surprised at 0.7 for surprised/confused, relaxed at 0.7 for
\* loving, happy at 0.3 for embarrassed/shy.
C22_ChannelHoldsBlendTimesPeak ==
    (frame.n >= 1 /\ emotion.current \in EmotionTags \ {"neutral"}) =>
        expr[LabelChannel(emotion.current)] * 10 =
            emotion.blendValue * LabelPeak(emotion.current)

\* shy fully blended right after happy: the happy channel holds 0.3.
C22_Witness ==
    /\ emotion.current = "shy" /\ emotion.blendValue = One /\ labelTicks = 4
    /\ frame.n = 8 /\ expr["happy"] = (One * 3) \div 10

\* C23: no tick gives the neutral channel a non-zero weight, and a tick whose
\* label is neutral only lets happy, angry, sad, surprised and relaxed decay
\* (by 3 * dt, not below 0).
C23_NeutralDrivesNoChannel ==
    [][FrameRan =>
        /\ expr'["neutral"] = 0
        /\ emotion'.current = "neutral" =>
               \A c \in expressionsToReset : expr'[c] = Max(0, expr[c] - FadeStep(frame'.dt))]_vars

\* C24: no standard channel drops by more than 3 * dt from the end of one
\* tick to the end of the next.
C24_NoDiscreteSwitch ==
    [][FrameRan =>
        \A c \in expressionsToReset : expr[c] - expr'[c] <= FadeStep(frame'.dt)]_vars

\* ceil(0.7 / (3 * dt)), dt in timer units.
FadeTicks(dt) == (7 * TimeRes + 30 * dt - 1) \div (30 * dt)

\* C25: in every tick each standard channel other than the label's channel
\* loses min(value, 3 * dt); so ceil(0.7 / (3 * dt)) ticks after a label
\* change, and for as long as the label stays, those channels are 0 and at
\* most one standard channel is not.
C25_OthersFadeToZero ==
    [][FrameRan =>
        /\ \A c \in expressionsToReset \ {LabelChannel(emotion'.current)} :
               expr'[c] = expr[c] - Min(expr[c], FadeStep(frame'.dt))
        /\ labelTicks' >= FadeTicks(frame'.dt) =>
               /\ \A c \in expressionsToReset \ {LabelChannel(emotion'.current)} : expr'[c] = 0
               /\ Cardinality({c \in expressionsToReset : expr'[c] # 0}) <= 1]_vars

\* Two ticks after a change from a fully blended angry to loving: angry has
\* faded from 0.7 to 0.2, one tick before it reaches 0, and relaxed is rising.
C25_Witness ==
    /\ emotion.current = "loving" /\ labelTicks = 2
    /\ expr["angry"] = (One * 2) \div 10 /\ expr["relaxed"] > 0
\* This step is an analysis tick that read the frequency data `data` while
\* playing: analyze() called by the onplay handler or by an animation frame,
\* past its first test.
AnalysisTick(data) ==
    /\ \/ \E id \in raf.pending : AnimationFrame(id, data)
       \/ \E e \in CallIds : OnPlay(e, data)
    /\ tts'.isPlaying /\ tts'.analyser /\ tts'.dataArray

\* 0.3 * level + 0.7 * raw, to the nearest unit.
SmoothedLevel(level, raw, levelAfter) ==
    /\ 10 * levelAfter - (3 * level + 7 * raw) <= 5
    /\ (3 * level + 7 * raw) - 10 * levelAfter < 5

\* clamp((sum / count - 30) / 150, 0, 1)
RawLevel(sum, count) ==
    IF sum <= 30 * count THEN 0
    ELSE IF sum >= 180 * count THEN One
    ELSE ((sum - 30 * count) * (One \div 150)) \div count

\* The sum of the bins 2 through 19, and of the bins 2 through 20.
SumBins2To19(d) ==
    d[2] + d[3] + d[4] + d[5] + d[6] + d[7] + d[8] + d[9] + d[10]
    + d[11] + d[12] + d[13] + d[14] + d[15] + d[16] + d[17] + d[18] + d[19]

SumBins2To20(d) == SumBins2To19(d) + d[20]

\* C26 as claimed: each analysis tick averages the 19 bins 2 through 20:
\* the level it computes is that of their mean.
C26_MeanOfBins2To20 ==
    [][\A data \in AudioFrames :
          AnalysisTick(data) =>
              SmoothedLevel(tts.currentAudioLevel, RawLevel(SumBins2To20(data), 19),
                            tts'.currentAudioLevel)]_vars

\* C26 as amended: each analysis tick averages the 18 bins 2 through 19:
\* the level it computes is that of their mean, whatever bins 0, 1 and 20 to
\* 127 hold.
C26_MeanOfBins2To19 ==
    [][\A data \in AudioFrames :
          AnalysisTick(data) =>
              SmoothedLevel(tts.currentAudioLevel, RawLevel(SumBins2To19(data), 18),
                            tts'.currentAudioLevel)]_vars

\* The first analysis tick of a playback read bins of mean 105 over 2..19
\* (the ramp 10 * i, whose mean over 2..20 is 110): the level is 0.7 * 0.5.
C26_Witness ==
    /\ tts.isPlaying /\ raf.issued = 1
    /\ tts.currentAudioLevel = (One * 35) \div 100

\* C27: an analysis tick while playing whose voice band has mean m sets the
\* level to 0.3 * level + 0.7 * raw, raw = clamp((m - 30) / 150, 0, 1): raw is
\* 0 for m <= 30 and 1 for m >= 180, and silent input multiplies the level by
\* 0.3.
C27_LevelIsMovingAverage ==
    [][\A m \in {0, 30, 105, 180, 255} :
          AnalysisTick(BandFrame(0, m, 0)) =>
              LET raw == IF m <= 30 THEN 0
                         ELSE IF m >= 180 THEN One
                         ELSE ((m - 30) * One) \div 150
              IN  /\ SmoothedLevel(tts.currentAudioLevel, raw, tts'.currentAudioLevel)
                  /\ m = 0 => tts'.currentAudioLevel = MulRound(tts.currentAudioLevel, 3, 10)]_vars

\* A full-scale tick and then a silent one: the level went from 0.7 to 0.21.
C27_Witness ==
    /\ tts.isPlaying /\ raf.issued = 2
    /\ tts.currentAudioLevel = (One * 21) \div 100
\* C28: a tick with isSpeaking false multiplies the mouth-open value by 0.85
\* (to the nearest unit): the value does not increase, and a positive value
\* stays positive, the tick right after speaking included.
C28_MouthDecaysWhenSilent ==
    [][(FrameRan /\ ~frame'.isSpeaking) =>
        /\ 100 * lipSync'.value - 85 * lipSync.value <= 50
        /\ 85 * lipSync.value - 100 * lipSync'.value < 50
        /\ lipSync'.value <= lipSync.value
        /\ lipSync.value > 0 => lipSync'.value > 0
        /\ expr'["aa"] = (lipSync'.value * 9) \div 10]_vars

\* The first tick after speaking with the mouth fully open: the value is 0.85.
C28_Witness ==
    /\ ~frame.isSpeaking /\ silentTicks = 1 /\ frame.n > 1
    /\ lipSync.value = (One * 85) \div 100
\* The extractor is playing with a live analyser and the App shows speaking.
RealLevelSupplied ==
    tts.isPlaying /\ tts.analyser /\ tts.dataArray /\ app.isSpeaking

\* C29: a tick that runs while isSpeaking is true and the extractor is
\* playing with a live analyser computes the mouth-open value from the
\* supplied level: smoothedLevel becomes 0.4 * smoothedLevel + 0.6 * level and
\* the value is smoothedLevel + sin(t * 15) * 0.1, clamped; it never is the
\* simulated sum of sines.
C29_RealLevelDrivesMouth ==
    [][(FrameRan /\ RealLevelSupplied) =>
        LET smoothed == MulRound(lipSync.smoothedLevel * 4 + app.audioLevel * 6, 1, 10)
        IN  /\ lipSync'.smoothedLevel = smoothed
            /\ lipSync'.value \in {Clamp01(smoothed + One \div 10),
                                   Clamp01(smoothed - One \div 10)}]_vars
RecurTicks == 2 * (6 * 2 + 1)

BlinkStarts == FrameRan /\ ~blink.isBlinking /\ blink'.isBlinking
BlinkEnds == FrameRan /\ blink.isBlinking /\ ~blink'.isBlinking

\* C31: the callback that completes a blink redraws the timer from [2,6)
\* seconds; the idle period between that callback and the one that starts
\* the next blink lasts at least 2 s and less than 6 s plus one tick; and
\* while callbacks keep running another blink always starts.
C31_BlinksRecur ==
    /\ [][BlinkEnds => /\ Secs(2, 1) <= blink'.timer
                       /\ blink'.timer < Secs(6, 1)]_vars
    /\ [][(BlinkStarts /\ frame.n > 0) =>
             /\ Secs(2, 1) <= frame'.idleAge
             /\ frame'.idleAge < Secs(6, 1) + frame'.dt]_vars
    /\ [](~blink.isBlinking => frame.idleAge < Secs(6, 1) + frame.dt)
    /\ (frame.n <= RecurFrames - RecurTicks) ~>
           (blink.isBlinking /\ frame.idleAge > 0)

\* A second blink starts: the callback that starts it follows an idle
\* period of at least 2 s.
C31_Witness ==
    /\ blink.isBlinking /\ frame.idleAge >= Secs(2, 1) /\ frame.n > 1
    /\ frame.n < RecurFrames - RecurTicks

\* C32: at every pose decision the previous blend has completed: before the
\* callback that decides, blendFactor is 1 and the materialized currentPose
\* is the previous target pose on all 14 parts.
C32_BlendCompleteAtDecision ==
    [][(FrameRan /\ frame'.decided) =>
          /\ poseAnim.blendFactor = One
          /\ \A b \in BoneNames : currentPose[b] = poses(poseAnim.targetPoseIndex)[b]]_vars

\* The audio elements created by speak() that are playing.
PlayingElements == {e \in CallIds : elements[e].state = "playing"}

\* C33: at most one audio element created by the service is playing, and the
\* playing one is the element connected to the analyser (the element of the
\* media element source).
C33_OnePlayingAndAnalysed ==
    /\ Cardinality(PlayingElements) <= 1
    /\ \A e \in PlayingElements : tts.source = e

\* stop() was the last of the speak() and stop() calls made, and some speak()
\* was issued before it.
Stopped == \E k \in CallIds : calls[k].stopped

Audible(e) == e.state \in {"starting", "playing"}

\* C34: between a stop() and the next speak(), no audio element starts
\* playing and no state callback reports isPlaying = true.
C34_SilentAfterStop ==
    [][(Stopped /\ Stopped') =>
          /\ \A e \in CallIds : Audible(elements'[e]) => Audible(elements[e])
          /\ notified'.isPlaying => notified.isPlaying]_vars

\* No reply is being spoken or about to be: no speak() call is in flight, no
\* element plays or has its play event queued, no utterance is queued or
\* being spoken, no reply waits to be spoken.
Quiet ==
    /\ \A k \in CallIds : calls[k].pc \in {"idle", "done", "failed"}
    /\ \A e \in CallIds : ~Audible(elements[e]) /\ ~elements[e].playEvent
    /\ \A u \in CallIds : synth.utterance[u] \notin {"pending", "speaking", "cancelled"}
    /\ \A k \in CallIds : chat.pc[k] \notin {"reply", "speak"}

\* speakResponse runs in this step.
ReplySpoken == \E k \in CallIds : chat.pc[k] = "reply" /\ chat'.pc[k] # "reply"

\* C35: isSpeaking never remains stuck true: whenever it is true it is
\* eventually false again, on the ElevenLabs path, the browser path and the
\* fallback between them; and once the replies have been spoken and it is
\* false, only the next speakResponse makes it true.
C35_SpeakingEventuallyFalse ==
    /\ app.isSpeaking ~> ~app.isSpeaking
    /\ [][(Quiet /\ ~app.isSpeaking /\ app'.isSpeaking) => ReplySpoken]_vars

\* A reply was played by ElevenLabs to its end and a second one, whose
\* request failed, was spoken by the browser to its end; isSpeaking is false.
C35_Witness ==
    /\ elements[1].state = "ended" /\ calls[2].pc = "failed"
    /\ synth.utterance[2] = "ended" /\ Quiet /\ ~app.isSpeaking

\* C40: at most one audio-analysis requestAnimationFrame callback is pending,
\* and one is pending only while isPlaying is true.
C40_OneFramePendingWhilePlaying ==
    /\ Cardinality(raf.pending) <= 1
    /\ raf.pending # {} => tts.isPlaying

\* C36: after stopListening() the service does not start recognition again
\* on its own and isListening stays false, until startListening() is called.
C36_NoRestartAfterStop ==
    mic.stopped => ~mic.isListening /\ mic.recognition \in {"idle", "ending"}

\* C38: isMicActive is true only while the speech service is listening or
\* starting (or its session is ending): once recognition has stopped by
\* itself, isMicActive is false.
C38_MicActiveOnlyWhileListening ==
    mic.isMicActive => mic.isListening \/ mic.recognition # "idle"

\* C37: every final transcript delivered while the microphone is active and
\* the API ready is pending or was passed to processMessage, and none is
\* passed twice.
C37_FinalsProcessedOnce ==
    /\ \A t \in mic.eligible :
           mic.pending = t \/ \E i \in 1 .. Len(mic.processed) : mic.processed[i] = t
    /\ \A i, j \in 1 .. Len(mic.processed) :
           mic.processed[i] = mic.processed[j] => i = j

\* processMessage was called in this step, by a caller other than the effect.
CallMade == convo'.call.n # convo.call.n

\* The state of the App and of the services is unchanged in this step.
AppUnchanged ==
    /\ UNCHANGED <<chat, synth, gemini, mic, serviceVars>>
    /\ convo'.messages = convo.messages
    /\ convo'.currentEmotion = convo.currentEmotion

\* speakResponse ran for call k in this step: ElevenLabs' speak() was issued,
\* or the browser was given the utterance (or has no speechSynthesis).
Spoke(k) ==
    \/ calls[k].pc = "idle" /\ calls'[k].pc # "idle"
    \/ synth.utterance[k] = "none" /\ synth'.utterance[k] = "pending"
    \/ synth'.synthesis = "null"

\* C39: a processMessage call with empty (or blank) text, while loading, or
\* before the API is ready changes no state; when the AI request fails the
\* apology is added with emotion embarrassed and spoken; and isLoading is
\* false when processMessage finishes, after a reply or after a failure.
C39_ApologyAndLoadingReset ==
    /\ [][(CallMade /\ (\/ Trim(convo'.call.text) = <<>>
                        \/ convo'.call.loading
                        \/ ~convo'.call.ready)) => AppUnchanged]_vars
    /\ [][\A k \in CallIds :
            (chat.pc[k] = "reply" /\ chat'.pc[k] # "reply" /\ convo'.last = "failed") =>
                /\ convo'.messages =
                       Append(convo.messages, [sender |-> "waifu", emotion |-> "embarrassed",
                                               text |-> "apology"])
                /\ convo'.currentEmotion = "embarrassed"
                /\ Spoke(k)]_vars
    /\ [][\A k \in CallIds :
            (chat.pc[k] # "done" /\ chat'.pc[k] = "done") => ~chat'.isLoading]_vars

\* The request of the first message failed, the apology was added and
\* spoken and processMessage finished; a second call, with a blank text,
\* was then made.
C39_Witness ==
    /\ convo.last = "failed" /\ chat.pc[1] = "done" /\ ~chat.isLoading
    /\ convo.currentEmotion = "embarrassed" /\ Len(convo.messages) = 3
    /\ convo.call = [n |-> 2, text |-> <<" ">>, loading |-> FALSE, ready |-> TRUE]

====
